---- MODULE Spec2Model ----
(***************************************************************************)
(* Model of the link-to-gauge alignment and rain-detection code of         *)
(* src/analysis/pynncml_experiments/notebooks/load_link_set.py:            *)
(*   - rain_detection (with gauge_to15), the detection scorer;             *)
(*   - classification_plot, the detection plot with its own comparison;    *)
(*   - patched_xarray2link_with_gauges, the gauge aggregator;              *)
(*   - guage_to_linkset, the gauge loader;                                 *)
(* of ASOSFetcher.download_file (datasets/noaa/asos_automated/fetcher.py), *)
(* of get_historical_data_multi_chunk                                      *)
(* (fetch_data/weather_underground/wu_functions.py) and of                 *)
(* run_full_pipeline (datasets/noaa/asos_automated/main.py).               *)
(* Floating-point values are exact rationals <<num, den>> with den > 0;    *)
(* NaN is <<0, 0>>.  Timestamps are integer Unix seconds.                  *)
(***************************************************************************)
EXTENDS Integers, Sequences, FiniteSets, TLC

VARIABLES
    \* ---- rain_detection ----
    link_time_full,     \* link.time(): the link's timestamps
    wd_classification,  \* row 0 of the detector's classification output
    gauge_ref,          \* link.gauge_ref: <<>> (none) or <<gauge>>
    pc,                 \* "call" | "returned" | "raised"
    raised,             \* "" or the exception the call ended with
    loc,                \* the locals of rain_detection when it returned
    ret,                \* the returned value (kind "None" or "dict")
    printed,            \* the lines rain_detection printed
    \* ---- classification_plot ----
    cp_pc,              \* "call" | "returned" | "raised"
    cp_raised,          \* "" or the exception the call ended with
    cp,                 \* the locals of classification_plot when it returned
    cp_printed,         \* the lines classification_plot printed (numbers left out)
    \* ---- patched_xarray2link_with_gauges ----
    ds_time,            \* ds.time: the timestamps shared by every (sublink, cml)
    pairs,              \* the (sublink, cml) pairs of ds, in loop order
    next_pair,          \* the index of the pair the loop handles next
    agg_pc,             \* "idle" | "loop" | "returned" | "raised"
    link_list,          \* the links created so far
    skipped_coords,
    skipped_data,
    agg,                \* the locals of the last loop iteration that built a link
    \* ---- guage_to_linkset ----
    stations,           \* gauge.items(): the stations read from the netCDF groups
    gauge_metadata,     \* the "Station ID" column of the metadata, row by row
    next_station,       \* the index of the station the loop handles next
    loader_pc,          \* "idle" | "loop" | "returned"
    gauge_list,         \* the PointSensors built so far
    loader_printed,     \* the skip messages printed
    \* ---- ASOSFetcher.download_file ----
    retry_count,        \* the argument retry_count
    attempt,            \* the loop variable: the attempt about to be made (0-based)
    responses,          \* what each requests.get so far ended with
    file_written,       \* whether output_path was written
    slept,              \* the arguments of the time.sleep calls
    fetch_pc,           \* "idle" | "loop" | "returned"
    fetch_ret,          \* "pending" | "True" | "False"
    \* ---- get_historical_data_multi_chunk ----
    start_date,         \* the arguments, as day numbers
    end_date,
    current_start,
    chunks,             \* the (start, end) of each get_historical_data_chunk call
    all_observations,   \* the chunks whose observations were collected
    chunk_pc,           \* "idle" | "call" | "loop" | "returned"
    chunk_ret,          \* "pending" | "None" | "data"
    \* ---- run_full_pipeline ----
    skip,               \* the skip flag of each step
    pipe_step,          \* the step the function has reached (1..4, 5 after the last)
    executed,           \* the steps run so far, in order
    pipe_pc,            \* "idle" | "running" | "returned"
    pipe_ret            \* "pending" | "True" | "False"

inputVars == <<link_time_full, wd_classification, gauge_ref>>
rainVars == <<pc, raised, loc, ret, printed>>
plotVars == <<cp_pc, cp_raised, cp, cp_printed>>
scoreVars == <<inputVars, rainVars, plotVars>>
aggVars == <<ds_time, pairs, next_pair, agg_pc, link_list, skipped_coords, skipped_data, agg>>
loaderVars == <<stations, gauge_metadata, next_station, loader_pc, gauge_list, loader_printed>>
fetchVars == <<retry_count, attempt, responses, file_written, slept, fetch_pc, fetch_ret>>
chunkVars == <<start_date, end_date, current_start, chunks, all_observations, chunk_pc,
               chunk_ret>>
pipeVars == <<skip, pipe_step, executed, pipe_pc, pipe_ret>>
otherVars == <<loaderVars, fetchVars, chunkVars, pipeVars>>
vars == <<scoreVars, aggVars, otherVars>>

(***************************************************************************)
(* Numbers                                                                 *)
(***************************************************************************)
NaN == <<0, 0>>

IsNaN(x) == x[2] = 0

Abs(n) == IF n < 0 THEN -n ELSE n

RECURSIVE GCD(_, _)
GCD(a, b) == IF b = 0 THEN a ELSE GCD(b, a % b)

\* The float n/d of numpy's true division: 0/0 is nan (a RuntimeWarning, no raise).
NpDiv(n, d) ==
    IF d = 0 THEN NaN
    ELSE LET g == GCD(Abs(n), Abs(d))
             s == IF d < 0 THEN -1 ELSE 1
         IN  <<(s * n) \div g, (s * d) \div g>>

R(n) == <<n, 1>>

Add(x, y) == IF IsNaN(x) \/ IsNaN(y) THEN NaN
             ELSE NpDiv(x[1] * y[2] + y[1] * x[2], x[2] * y[2])

Sub(x, y) == IF IsNaN(x) \/ IsNaN(y) THEN NaN
             ELSE NpDiv(x[1] * y[2] - y[1] * x[2], x[2] * y[2])

Mul(x, y) == IF IsNaN(x) \/ IsNaN(y) THEN NaN
             ELSE NpDiv(x[1] * y[1], x[2] * y[2])

DivInt(x, k) == IF IsNaN(x) THEN NaN ELSE NpDiv(x[1], x[2] * k)

\* x > y on floats: every comparison with nan is False.
Gt(x, y) == ~IsNaN(x) /\ ~IsNaN(y) /\ x[1] * y[2] > y[1] * x[2]

RECURSIVE SumSeq(_)
SumSeq(s) == IF s = <<>> THEN R(0) ELSE Add(s[1], SumSeq(Tail(s)))

RECURSIVE CountTrue(_)
CountTrue(m) == IF m = <<>> THEN 0
                ELSE (IF m[1] THEN 1 ELSE 0) + CountTrue(Tail(m))

SeqMin(s) == CHOOSE x \in {s[i] : i \in DOMAIN s} :
                 \A j \in DOMAIN s : x <= s[j]

SeqMax(s) == CHOOSE x \in {s[i] : i \in DOMAIN s} :
                 \A j \in DOMAIN s : x >= s[j]

Max2(a, b) == IF a >= b THEN a ELSE b

Min2(a, b) == IF a <= b THEN a ELSE b

\* a[mask] for a boolean mask of the same length
RECURSIVE Masked(_, _)
Masked(a, mask) ==
    IF a = <<>> THEN <<>>
    ELSE (IF mask[1] THEN <<a[1]>> ELSE <<>>) \o Masked(Tail(a), Tail(mask))

(***************************************************************************)
(* gauge_to15                                                              *)
(***************************************************************************)
\* math.ceil(len(gauge.data_array) / 3)
NTrios(n) == (n + 2) \div 3

\* Mutant: the sum of the trio is always divided by three.
TrioMean_DivideByThree(data, i) ==
    LET start_idx == i * 3
        end_idx == Min2(start_idx + 3, Len(data))
    IN  DivInt(SumSeq(SubSeq(data, start_idx + 1, end_idx)), 3)

\* np.mean(gauge.data_array[start_idx:end_idx]) for trio i (0-based)
TrioMean(data, i) ==
    LET start_idx == i * 3
        end_idx == Min2(start_idx + 3, Len(data))
    IN  DivInt(SumSeq(SubSeq(data, start_idx + 1, end_idx)), end_idx - start_idx)

gauge_to15(gauge) ==
    LET n_trios == NTrios(Len(gauge.data_array))
    IN  [time_array |-> [i \in 1..n_trios |-> gauge.time_array[(i - 1) * 3 + 1]],
         gauge_data |-> [i \in 1..n_trios |-> TrioMean(gauge.data_array, i - 1)]]

(***************************************************************************)
(* rain_detection                                                          *)
(***************************************************************************)
BucketSeconds == 300

\* python's a[:-2]
Trim2(a) == SubSeq(a, 1, Len(a) - 2)

\* The left edge of the 5-minute bucket (closed left, labelled left) holding t.
BucketOf(t) == (t \div BucketSeconds) * BucketSeconds

\* Mutant: the bucket takes its last sample instead of the maximum.
AggPrediction_Last(x) == IF Len(x) > 0 /\ x[Len(x)] = 1 THEN 1 ELSE 0

\* lambda x: 1 if (len(x) > 0 and x.max() == 1) else 0
AggPrediction(x) == IF Len(x) > 0 /\ SeqMax(x) = 1 THEN 1 ELSE 0

\* Mutant: a bucket without a sample gets no row.
Resample_SkipEmpty(times, values) ==
    IF times = <<>> THEN <<>>
    ELSE LET first == BucketOf(times[1])
             last == BucketOf(times[Len(times)])
             nb == (last - first) \div BucketSeconds + 1
             rows == [k \in 1..nb |->
                        LET b == first + (k - 1) * BucketSeconds
                            inb == [i \in DOMAIN times |-> BucketOf(times[i]) = b]
                        IN  [time |-> b, prediction |-> AggPrediction(Masked(values, inb))]]
         IN  SelectSeq(rows, LAMBDA r : \E i \in DOMAIN times : BucketOf(times[i]) = r.time)

\* link_df.resample('5min', label='left', closed='left').agg(...): one row per
\* bucket from the first sample's bucket to the last sample's bucket.
Resample(times, values) ==
    IF times = <<>> THEN <<>>
    ELSE LET first == BucketOf(times[1])
             last == BucketOf(times[Len(times)])
             nb == (last - first) \div BucketSeconds + 1
         IN  [k \in 1..nb |->
                LET b == first + (k - 1) * BucketSeconds
                    inb == [i \in DOMAIN times |-> BucketOf(times[i]) = b]
                IN  [time |-> b, prediction |-> AggPrediction(Masked(values, inb))]]

\* link_resampled.join(gauge_df, how='inner'): a row per pair of equal timestamps.
RECURSIVE JoinRow(_, _, _)
JoinRow(row, gtimes, gvals) ==
    IF gtimes = <<>> THEN <<>>
    ELSE (IF gtimes[1] = row.time
          THEN <<[time |-> row.time, prediction |-> row.prediction,
                  rainfall |-> gvals[1]]>>
          ELSE <<>>) \o JoinRow(row, Tail(gtimes), Tail(gvals))

RECURSIVE InnerJoin(_, _, _)
InnerJoin(rows, gtimes, gvals) ==
    IF rows = <<>> THEN <<>>
    ELSE JoinRow(rows[1], gtimes, gvals) \o InnerJoin(Tail(rows), gtimes, gvals)

\* Mutant: the rows with a missing rainfall are kept.
DropNa_Keep(rows) == rows

\* combined.dropna()
DropNa(rows) == SelectSeq(rows, LAMBDA r : ~IsNaN(r.rainfall))

rain_threshold == 0

\* x / y if y > 0 else 0
GuardedDiv(x, y) == IF y > 0 THEN NpDiv(x, y) ELSE R(0)

\* Mutant: the accuracy without its guard.
Accuracy_Unguarded(correct, total) == NpDiv(correct, total)

\* accuracy = correct / total if total > 0 else 0
Accuracy(correct, total) == GuardedDiv(correct, total)

\* precision = tp / (tp + fp) if (tp + fp) > 0 else 0
Precision(tp, fp) == GuardedDiv(tp, tp + fp)

\* Mutant: the recall without its guard.
Recall_Unguarded(tp, fn) == NpDiv(tp, tp + fn)

\* recall = tp / (tp + fn) if (tp + fn) > 0 else 0
Recall(tp, fn) == GuardedDiv(tp, tp + fn)

\* 'positive_acc': float(true_positives / (true_positives + false_negatives))
PositiveAcc(tp, fn) == NpDiv(tp, tp + fn)

\* 'negative_acc': float(true_negatives / (true_negatives + false_positives))
NegativeAcc(tn, fp) == NpDiv(tn, tn + fp)

\* Mutant: a gauge value equal to the threshold counts as rain.
ActualRain_AtLeast(rainfall) ==
    IF Gt(rainfall, R(rain_threshold)) \/ rainfall = R(rain_threshold) THEN 1 ELSE 0

\* (combined['rainfall'].values > rain_threshold).astype(int)
ActualRain(rainfall) == IF Gt(rainfall, R(rain_threshold)) THEN 1 ELSE 0

TpMask(p, a) == [i \in DOMAIN p |-> p[i] = 1 /\ a[i] = 1]

TnMask(p, a) == [i \in DOMAIN p |-> p[i] = 0 /\ a[i] = 0]

\* Mutant: the false-positive mask forgets the observation.
FpMask_AnyPredicted(p, a) == [i \in DOMAIN p |-> p[i] = 1]

FpMask(p, a) == [i \in DOMAIN p |-> p[i] = 1 /\ a[i] = 0]

FnMask(p, a) == [i \in DOMAIN p |-> p[i] = 0 /\ a[i] = 1]

\* categories: zeros, then 1 / 0 / 2 / 3 written through the four masks in order
Categories(tp, tn, fp, fn) ==
    [i \in DOMAIN tp |->
        IF fn[i] THEN 3 ELSE IF fp[i] THEN 2 ELSE IF tn[i] THEN 0
        ELSE IF tp[i] THEN 1 ELSE 0]

\* std_vector, the detector's second output: it has the shape of
\* wd_classification; its values play no part in the comparison.
StdVector(wd) == [i \in DOMAIN wd |-> R(0)]

\* The locals of rain_detection from the overlap window to the metrics, for a
\* link whose gauge reference exists and whose arrays index without error.
RainDetectionLocals(time_full, wd, gauge) ==
    LET wd_array == Trim2(wd)
        std_array == Trim2(StdVector(wd))
        gauge15 == gauge_to15(gauge)
        gauge_time == gauge15.time_array
        link_time == Trim2(time_full)
        start_time == Max2(SeqMin(link_time), SeqMin(gauge_time))
        end_time == Min2(SeqMax(link_time), SeqMax(gauge_time))
        link_mask == [i \in DOMAIN link_time |->
                         link_time[i] >= start_time /\ link_time[i] <= end_time]
        gauge_mask == [i \in DOMAIN gauge_time |->
                          gauge_time[i] >= start_time /\ gauge_time[i] <= end_time]
        wd_filtered == Masked(wd_array, link_mask)
        ref_filtered == Masked(gauge15.gauge_data, gauge_mask)
        time_filtered_link == Masked(link_time, link_mask)
        time_filtered_gauge == Masked(gauge_time, gauge_mask)
        link_resampled == Resample(time_filtered_link, wd_filtered)
        combined == DropNa(InnerJoin(link_resampled, time_filtered_gauge, ref_filtered))
        predicted_rain_array == [i \in DOMAIN combined |-> combined[i].prediction]
        actual_rain_array == [i \in DOMAIN combined |-> ActualRain(combined[i].rainfall)]
        tp_mask == TpMask(predicted_rain_array, actual_rain_array)
        tn_mask == TnMask(predicted_rain_array, actual_rain_array)
        fp_mask == FpMask(predicted_rain_array, actual_rain_array)
        fn_mask == FnMask(predicted_rain_array, actual_rain_array)
        true_positives == CountTrue(tp_mask)
        true_negatives == CountTrue(tn_mask)
        false_positives == CountTrue(fp_mask)
        false_negatives == CountTrue(fn_mask)
        total == Len(combined)
    IN  [start_time |-> start_time,
         end_time |-> end_time,
         wd_array |-> wd_array,
         std_array |-> std_array,
         link_time |-> link_time,
         std_filtered |-> Masked(std_array, link_mask),
         gauge15 |-> gauge15,
         gauge_time |-> gauge_time,
         time_filtered_link |-> time_filtered_link,
         wd_filtered |-> wd_filtered,
         time_filtered_gauge |-> time_filtered_gauge,
         ref_filtered |-> ref_filtered,
         link_resampled |-> link_resampled,
         combined |-> combined,
         tp_mask |-> tp_mask,
         tn_mask |-> tn_mask,
         fp_mask |-> fp_mask,
         fn_mask |-> fn_mask,
         categories |-> Categories(tp_mask, tn_mask, fp_mask, fn_mask),
         true_positives |-> true_positives,
         true_negatives |-> true_negatives,
         false_positives |-> false_positives,
         false_negatives |-> false_negatives,
         total |-> total,
         accuracy |-> Accuracy(true_positives + true_negatives, total),
         precision |-> Precision(true_positives, false_positives),
         recall |-> Recall(true_positives, false_negatives)]

\* The dictionary of the return statement.
ReturnDict(l) ==
    [kind |-> "dict",
     accuracy |-> l.accuracy,
     positive_acc |-> PositiveAcc(l.true_positives, l.false_negatives),
     negative_acc |-> NegativeAcc(l.true_negatives, l.false_positives),
     categories |-> l.categories,
     time_array |-> [i \in DOMAIN l.combined |-> l.combined[i].time],
     true_positives |-> l.true_positives,
     true_negatives |-> l.true_negatives,
     false_positives |-> l.false_positives,
     false_negatives |-> l.false_negatives]

\* Mutant: an empty result dictionary is returned instead of None.
ReturnNone_EmptyDict == [kind |-> "dict"]

ReturnNone == [kind |-> "None"]

\* print("Could not filter data or no gauge available")
CouldNotFilter == "Could not filter data or no gauge available"

NoLocals == [total |-> -1]

\* if gauge_ref and len(gauge_ref) > 0
HasGaugeRef == Len(gauge_ref) > 0

\* link_time.min() of an empty array: numpy raises ValueError.
EmptyLinkTime == Len(Trim2(link_time_full)) = 0

\* wd_array[link_mask] with a mask of another length: numpy raises IndexError.
MaskMismatch == Len(Trim2(wd_classification)) # Len(Trim2(link_time_full))

\* rain_detection returns the metrics dictionary.
RainDetectionReturnsDict ==
    /\ pc = "call"
    /\ cp_pc = "call"
    /\ HasGaugeRef
    /\ ~EmptyLinkTime
    /\ ~MaskMismatch
    /\ loc' = RainDetectionLocals(link_time_full, wd_classification, gauge_ref[1])
    /\ ret' = ReturnDict(loc')
    /\ pc' = "returned"
    /\ UNCHANGED <<link_time_full, wd_classification, gauge_ref, raised, printed>>
    /\ UNCHANGED plotVars
    /\ UNCHANGED aggVars
    /\ UNCHANGED otherVars

\* rain_detection prints "Could not filter data or no gauge available", returns None.
RainDetectionReturnsNone ==
    /\ pc = "call"
    /\ cp_pc = "call"
    /\ ~HasGaugeRef
    /\ ret' = ReturnNone
    /\ printed' = Append(printed, CouldNotFilter)
    /\ pc' = "returned"
    /\ UNCHANGED <<link_time_full, wd_classification, gauge_ref, raised, loc>>
    /\ UNCHANGED plotVars
    /\ UNCHANGED aggVars
    /\ UNCHANGED otherVars

\* rain_detection ends with the exception numpy raises.
RainDetectionRaises ==
    /\ pc = "call"
    /\ cp_pc = "call"
    /\ HasGaugeRef
    /\ EmptyLinkTime \/ MaskMismatch
    /\ raised' = IF EmptyLinkTime THEN "ValueError" ELSE "IndexError"
    /\ pc' = "raised"
    /\ UNCHANGED <<link_time_full, wd_classification, gauge_ref, loc, ret, printed>>
    /\ UNCHANGED plotVars
    /\ UNCHANGED aggVars
    /\ UNCHANGED otherVars

(***************************************************************************)
(* classification_plot                                                     *)
(***************************************************************************)
\* a[:n]
Prefix(a, n) == SubSeq(a, 1, Min2(n, Len(a)))

\* Mutant: the mask keeps everything from start_time on.
WindowMask_StartOnly(times, start_time, end_time) ==
    [i \in DOMAIN times |-> times[i] >= start_time]

\* (times >= start_time) & (times <= end_time)
WindowMask(times, start_time, end_time) ==
    [i \in DOMAIN times |-> times[i] >= start_time /\ times[i] <= end_time]

\* Mutant: the value of the latest sample at or before x (kind='previous').
NearestAt_Previous(xs, ys, x) ==
    IF x < xs[1] \/ x > xs[Len(xs)] THEN 0
    ELSE ys[Cardinality({k \in DOMAIN xs : xs[k] <= x})]

\* interp1d(xs, ys, kind='nearest', bounds_error=False, fill_value=0)(x) for
\* sorted xs: the sample whose index is the number of midpoints below x
\* (searchsorted(x_bds, x, side='left')), so a tie goes to the earlier sample;
\* fill_value outside [xs[0], xs[-1]].
NearestAt(xs, ys, x) ==
    IF x < xs[1] \/ x > xs[Len(xs)] THEN 0
    ELSE ys[Cardinality({k \in 1..(Len(xs) - 1) : xs[k] + xs[k + 1] < 2 * x}) + 1]

\* The locals of classification_plot for a link with a gauge reference.  The
\* detector's std_vector has the shape of its wd_classification.
ClassificationPlotLocals(time_full, wd, gauge) ==
    LET link_time == time_full
        gauge_time == gauge.time_array
        start_time == Max2(SeqMin(link_time), SeqMin(gauge_time))
        end_time == Min2(SeqMax(link_time), SeqMax(gauge_time))
        wd_array == Trim2(wd)
        std_array == StdVector(wd)
        link_time_wd == Prefix(link_time, Len(wd_array))
        link_time_std == Prefix(link_time, Len(std_array))
        link_mask_wd == WindowMask(link_time_wd, start_time, end_time)
        link_mask_std == WindowMask(link_time_std, start_time, end_time)
        gauge_mask == WindowMask(gauge_time, start_time, end_time)
        wd_filtered == Masked(wd_array, link_mask_wd)
        ref_filtered == Masked(gauge.data_array, gauge_mask)
        time_filtered_link_wd == Masked(link_time_wd, link_mask_wd)
        time_filtered_link_std == Masked(link_time_std, link_mask_std)
        time_filtered_gauge == Masked(gauge_time, gauge_mask)
        wd_at_gauge_times ==
            IF wd_filtered = <<>> THEN <<>>
            ELSE [i \in DOMAIN time_filtered_gauge |->
                     NearestAt(time_filtered_link_wd, wd_filtered, time_filtered_gauge[i])]
        n == DOMAIN wd_at_gauge_times
        true_positives ==
            Cardinality({i \in n : wd_at_gauge_times[i] = 1 /\ Gt(ref_filtered[i], R(0))})
        true_negatives ==
            Cardinality({i \in n : wd_at_gauge_times[i] = 0 /\ ref_filtered[i] = R(0)})
        false_positives ==
            Cardinality({i \in n : wd_at_gauge_times[i] = 1 /\ ref_filtered[i] = R(0)})
        false_negatives ==
            Cardinality({i \in n : wd_at_gauge_times[i] = 0 /\ Gt(ref_filtered[i], R(0))})
    IN  [start_time |-> start_time,
         end_time |-> end_time,
         wd_array |-> wd_array,
         std_array |-> std_array,
         link_time_wd |-> link_time_wd,
         link_time_std |-> link_time_std,
         wd_filtered |-> wd_filtered,
         std_filtered |-> Masked(std_array, link_mask_std),
         ref_filtered |-> ref_filtered,
         time_filtered_link_wd |-> time_filtered_link_wd,
         time_filtered_link_std |-> time_filtered_link_std,
         time_filtered_gauge |-> time_filtered_gauge,
         wd_at_gauge_times |-> wd_at_gauge_times,
         true_positives |-> true_positives,
         true_negatives |-> true_negatives,
         false_positives |-> false_positives,
         false_negatives |-> false_negatives,
         accuracy |-> NpDiv(true_positives + true_negatives, Len(ref_filtered))]

\* ref_filtered = None: nothing was computed.
NoPlotLocals == [ref_filtered |-> <<>>]

\* link_time.min() of an empty array: numpy raises ValueError.
PlotEmptyLinkTime == Len(link_time_full) = 0

\* wd_array[link_mask_wd] or std_array[link_mask_std] with a mask shorter than
\* the array (link_time[:n] cannot be longer than link_time): IndexError.
PlotMaskMismatch ==
    /\ ~PlotEmptyLinkTime
    /\ \/ Len(Trim2(wd_classification)) > Len(link_time_full)
       \/ Len(StdVector(wd_classification)) > Len(link_time_full)

\* interp1d on no link sample at all: scipy raises ValueError.
PlotNoLinkSample ==
    /\ ~PlotEmptyLinkTime
    /\ ~PlotMaskMismatch
    /\ ClassificationPlotLocals(link_time_full, wd_classification,
                                gauge_ref[1]).wd_filtered = <<>>

PlotRaises == PlotEmptyLinkTime \/ PlotMaskMismatch \/ PlotNoLinkSample

\* The lines printed before the plots.
OverlapLines == <<"Overlap period">>

CountLines == <<"Link WD data points", "Gauge data points">>

InterpolatedLine == <<"Interpolated detection length">>

NoGaugeReference == "No gauge reference for this link!"

PerformanceLines ==
    <<"Detection Performance", "True Positives", "True Negatives", "False Positives",
      "False Negatives", "Positive detection", "Negative detection", "Accuracy">>

\* classification_plot draws the four plots and prints the detection performance.
ClassificationPlotScores ==
    /\ cp_pc = "call"
    /\ pc = "call"
    /\ HasGaugeRef
    /\ ~PlotRaises
    /\ cp' = ClassificationPlotLocals(link_time_full, wd_classification, gauge_ref[1])
    /\ Len(cp'.ref_filtered) > 0
    /\ cp_printed' = cp_printed \o OverlapLines \o CountLines \o InterpolatedLine
                                \o PerformanceLines
    /\ cp_pc' = "returned"
    /\ UNCHANGED cp_raised
    /\ UNCHANGED <<inputVars, rainVars>>
    /\ UNCHANGED aggVars
    /\ UNCHANGED otherVars

\* classification_plot plots nothing: there is no gauge reference, or no gauge
\* sample lies in the overlap period.
ClassificationPlotNothingToPlot ==
    /\ cp_pc = "call"
    /\ pc = "call"
    /\ \/ /\ ~HasGaugeRef
          /\ cp' = NoPlotLocals
          /\ cp_printed' = cp_printed \o <<NoGaugeReference, CouldNotFilter>>
       \/ /\ HasGaugeRef
          /\ ~PlotRaises
          /\ cp' = ClassificationPlotLocals(link_time_full, wd_classification, gauge_ref[1])
          /\ Len(cp'.ref_filtered) = 0
          /\ cp_printed' = cp_printed \o OverlapLines \o CountLines \o InterpolatedLine
                                      \o <<CouldNotFilter>>
    /\ cp_pc' = "returned"
    /\ UNCHANGED cp_raised
    /\ UNCHANGED <<inputVars, rainVars>>
    /\ UNCHANGED aggVars
    /\ UNCHANGED otherVars

\* classification_plot ends with the exception numpy or scipy raises.
ClassificationPlotRaises ==
    /\ cp_pc = "call"
    /\ pc = "call"
    /\ HasGaugeRef
    /\ PlotRaises
    /\ cp_raised' = IF PlotEmptyLinkTime THEN "ValueError"
                    ELSE IF PlotMaskMismatch THEN "IndexError"
                    ELSE "ValueError"
    /\ cp_printed' = IF PlotEmptyLinkTime THEN cp_printed
                     ELSE IF PlotMaskMismatch THEN cp_printed \o OverlapLines
                     ELSE cp_printed \o OverlapLines \o CountLines
    /\ cp_pc' = "raised"
    /\ UNCHANGED cp
    /\ UNCHANGED <<inputVars, rainVars>>
    /\ UNCHANGED aggVars
    /\ UNCHANGED otherVars

(***************************************************************************)
(* patched_xarray2link_with_gauges                                         *)
(***************************************************************************)
DefaultTimeStep == 300

\* np.arange(start, stop, step, dtype=np.int64) for step > 0
Arange(start, stop, step) ==
    LET n == IF stop > start THEN ((stop - start) + step - 1) \div step ELSE 0
    IN  [k \in 1..n |-> start + (k - 1) * step]

\* Mutant: the default step is used whatever the link's time array.
TimeStep_AlwaysDefault(link_time_resolution) == DefaultTimeStep

\* time_step: the difference of the link's first two timestamps, else 300
TimeStep(link_time_resolution) ==
    IF Len(link_time_resolution) > 1
    THEN link_time_resolution[2] - link_time_resolution[1]
    ELSE DefaultTimeStep

\* Mutant: the minimum of the last gauge's timestamps only.
OverallTimeMin_LastGauge(gauges) == SeqMin(gauges[Len(gauges)].time_array)

\* overall_time_min = min(gt.min() for gt in all_gauge_times)
OverallTimeMin(gauges) == SeqMin([k \in DOMAIN gauges |-> SeqMin(gauges[k].time_array)])

\* overall_time_max = max(gt.max() for gt in all_gauge_times)
OverallTimeMax(gauges) == SeqMax([k \in DOMAIN gauges |-> SeqMax(gauges[k].time_array)])

\* common_time_array = np.arange(overall_time_min, overall_time_max + time_step, time_step)
CommonTimeArray(gauges, time_step) ==
    Arange(OverallTimeMin(gauges), OverallTimeMax(gauges) + time_step, time_step)

\* The linear interpolant between the samples j and j+1 at x (numpy.interp, to
\* which interp1d(kind='linear') delegates for int64 x and float64 y).
Linear(xs, ys, j, x) ==
    Add(ys[j], Mul(NpDiv(x - xs[j], xs[j + 1] - xs[j]), Sub(ys[j + 1], ys[j])))

\* Mutant: outside the samples' range the nearest edge value is used.
InterpAt_EdgeFill(xs, ys, x) ==
    IF x < xs[1] THEN ys[1]
    ELSE IF x > xs[Len(xs)] THEN ys[Len(xs)]
    ELSE LET j == CHOOSE k \in DOMAIN xs :
                      xs[k] <= x /\ (k = Len(xs) \/ xs[k + 1] > x)
         IN  IF j = Len(xs) \/ xs[j] = x THEN ys[j] ELSE Linear(xs, ys, j, x)

\* interp1d(xs, ys, kind='linear', bounds_error=False, fill_value=np.nan,
\*          assume_sorted=True)(x)
InterpAt(xs, ys, x) ==
    IF x < xs[1] \/ x > xs[Len(xs)] THEN NaN
    ELSE LET j == CHOOSE k \in DOMAIN xs :
                      xs[k] <= x /\ (k = Len(xs) \/ xs[k + 1] > x)
         IN  IF j = Len(xs) \/ xs[j] = x THEN ys[j] ELSE Linear(xs, ys, j, x)

\* One gauge's data on the common time array.
AlignedData(g, common_time_array) ==
    LET gauge_time == g.time_array
        time_min == Max2(SeqMin(gauge_time), SeqMin(common_time_array))
        time_max == Min2(SeqMax(gauge_time), SeqMax(common_time_array))
        gauge_mask == [i \in DOMAIN gauge_time |->
                          gauge_time[i] >= time_min /\ gauge_time[i] <= time_max]
        gauge_time_overlap == Masked(gauge_time, gauge_mask)
        gauge_data_overlap == Masked(g.data_array, gauge_mask)
    IN  IF time_max <= time_min
        THEN [k \in DOMAIN common_time_array |-> NaN]
        ELSE [k \in DOMAIN common_time_array |->
                 InterpAt(gauge_time_overlap, gauge_data_overlap, common_time_array[k])]

\* Mutant: a missing contribution is counted as zero.
NanMean_ZeroFill(col) ==
    DivInt(SumSeq([k \in DOMAIN col |-> IF IsNaN(col[k]) THEN R(0) ELSE col[k]]), Len(col))

\* Mutant: np.nansum, the division by the number of valid values is left out.
NanMean_Sum(col) ==
    LET valid == SelectSeq(col, LAMBDA v : ~IsNaN(v))
    IN  IF valid = <<>> THEN NaN ELSE SumSeq(valid)

\* np.nanmean of one column: the mean of the values that are not NaN, NaN if none.
NanMean(col) ==
    LET valid == SelectSeq(col, LAMBDA v : ~IsNaN(v))
    IN  IF valid = <<>> THEN NaN ELSE DivInt(SumSeq(valid), Len(valid))

\* np.mean of a list of numbers
Mean(xs) == DivInt(SumSeq(xs), Len(xs))

\* The locals of one loop iteration for len(gauges) > 0.
AverageGauges(gauges, link_time_resolution) ==
    LET time_step == TimeStep(link_time_resolution)
        common_time_array == CommonTimeArray(gauges, time_step)
        aligned_arrays == [k \in DOMAIN gauges |-> AlignedData(gauges[k], common_time_array)]
        averaged_data == [i \in DOMAIN common_time_array |->
                             NanMean([k \in DOMAIN gauges |-> aligned_arrays[k][i]])]
    IN  [num_gauges |-> Len(gauges),
         gauges |-> gauges,
         overall_time_min |-> OverallTimeMin(gauges),
         overall_time_max |-> OverallTimeMax(gauges),
         time_step |-> time_step,
         common_time_array |-> common_time_array,
         aligned_arrays |-> aligned_arrays,
         averaged_data |-> averaged_data,
         avg_lon |-> Mean([k \in DOMAIN gauges |-> R(gauges[k].lon)]),
         avg_lat |-> Mean([k \in DOMAIN gauges |-> R(gauges[k].lat)])]

NoAgg == [num_gauges |-> 0]

LoopRunning == agg_pc = "loop" /\ next_pair <= Len(pairs)

\* The gauges of ps, a PointSet (the argument of patched_xarray2link_with_gauges).
ps ==
    <<[time_array |-> <<0, 100>>, data_array |-> <<R(5), R(7)>>, lon |-> 2, lat |-> 10],
      [time_array |-> <<200, 300>>, data_array |-> <<R(1), R(3)>>, lon |-> 4, lat |-> 10],
      [time_array |-> <<0, 100>>, data_array |-> <<R(5), R(7)>>, lon |-> 2, lat |-> 10],
      [time_array |-> <<0, 200, 300>>, data_array |-> <<R(2), NaN, R(4)>>, lon |-> 3, lat |-> 11],
      [time_array |-> <<100>>, data_array |-> <<R(9)>>, lon |-> 5, lat |-> 12],
      [time_array |-> <<0, 300>>, data_array |-> <<NaN, NaN>>, lon |-> 6, lat |-> 13]>>

\* ps.find_near_gauges(md.xy_center(), max_distance): the gauges of ps within
\* max_distance of the link, in ps order; `near` is the set of their indices.
RECURSIVE FindNearGauges(_, _)
FindNearGauges(near, k) ==
    IF k > Len(ps) THEN <<>>
    ELSE (IF k \in near THEN <<ps[k]>> ELSE <<>>) \o FindNearGauges(near, k + 1)

\* Mutant: without near gauges no Link is recorded as having a reference slot,
\* and the count is taken from gauge_ref, a list of one averaged gauge.
NewLink_CountsReference(pair, gauges) ==
    [pair |-> pair, num_gauges_used |-> 1, gauge_ref_len |-> 1]

\* The Link appended for a pair: md.num_gauges_used = len(gauges), or 0 without
\* near gauges, and gauge_ref = [averaged_gauge] (one element), or None (written
\* as length 0).
NewLink(pair, gauges) ==
    [pair |-> pair,
     num_gauges_used |-> IF Len(gauges) > 0 THEN Len(gauges) ELSE 0,
     gauge_ref_len |-> IF Len(gauges) > 0 THEN 1 ELSE 0]

\* continue: an endpoint coordinate is NaN
SkipNanCoords ==
    /\ LoopRunning
    /\ pairs[next_pair].coords_nan
    /\ skipped_coords' = skipped_coords + 1
    /\ next_pair' = next_pair + 1
    /\ UNCHANGED <<ds_time, pairs, agg_pc, link_list, skipped_data, agg>>
    /\ UNCHANGED scoreVars
    /\ UNCHANGED otherVars

\* continue: every RSL value is NaN
SkipNoRsl ==
    /\ LoopRunning
    /\ ~pairs[next_pair].coords_nan
    /\ pairs[next_pair].rsl_all_nan
    /\ skipped_data' = skipped_data + 1
    /\ next_pair' = next_pair + 1
    /\ UNCHANGED <<ds_time, pairs, agg_pc, link_list, skipped_coords, agg>>
    /\ UNCHANGED scoreVars
    /\ UNCHANGED otherVars

\* len(gauges) > 0: the averaged gauge is built and attached to the new Link.
CreateLinkWithGauges ==
    /\ LoopRunning
    /\ ~pairs[next_pair].coords_nan
    /\ ~pairs[next_pair].rsl_all_nan
    /\ TimeStep(ds_time) # 0
    /\ \E near \in (SUBSET (DOMAIN ps)) \ {{}} :
          LET gauges == FindNearGauges(near, 1)
          IN  /\ agg' = AverageGauges(gauges, ds_time)
              /\ link_list' = Append(link_list, NewLink(next_pair, gauges))
    /\ next_pair' = next_pair + 1
    /\ UNCHANGED <<ds_time, pairs, agg_pc, skipped_coords, skipped_data>>
    /\ UNCHANGED scoreVars
    /\ UNCHANGED otherVars

\* No gauges found: the Link is created with gauge_ref = None.
CreateLinkNoGauges ==
    /\ LoopRunning
    /\ ~pairs[next_pair].coords_nan
    /\ ~pairs[next_pair].rsl_all_nan
    /\ FindNearGauges({}, 1) = <<>>
    /\ agg' = NoAgg
    /\ link_list' = Append(link_list, NewLink(next_pair, <<>>))
    /\ next_pair' = next_pair + 1
    /\ UNCHANGED <<ds_time, pairs, agg_pc, skipped_coords, skipped_data>>
    /\ UNCHANGED scoreVars
    /\ UNCHANGED otherVars

\* len(gauges) > 0 and the link's first two timestamps are equal: np.arange
\* with time_step = 0 raises (ValueError for numpy integers, whose division
\* gives inf or nan as the length; ZeroDivisionError for Python integers).
\* Nothing catches it: the call ends and the links built so far are lost.
AverageGaugesRaises ==
    /\ LoopRunning
    /\ ~pairs[next_pair].coords_nan
    /\ ~pairs[next_pair].rsl_all_nan
    /\ \E near \in (SUBSET (DOMAIN ps)) \ {{}} : Len(FindNearGauges(near, 1)) > 0
    /\ TimeStep(ds_time) = 0
    /\ agg_pc' = "raised"
    /\ UNCHANGED <<ds_time, pairs, next_pair, link_list, skipped_coords, skipped_data, agg>>
    /\ UNCHANGED scoreVars
    /\ UNCHANGED otherVars

\* The loops are over: return LinkSet(link_list).
ReturnLinkSet ==
    /\ agg_pc = "loop"
    /\ next_pair > Len(pairs)
    /\ agg_pc' = "returned"
    /\ UNCHANGED <<ds_time, pairs, next_pair, link_list, skipped_coords, skipped_data, agg>>
    /\ UNCHANGED scoreVars
    /\ UNCHANGED otherVars

(***************************************************************************)
(* guage_to_linkset                                                        *)
(***************************************************************************)
\* gauge_metadata.index[gauge_metadata["Station ID"] == station_id].tolist()
MatchingRows(station_id) ==
    SelectSeq([r \in DOMAIN gauge_metadata |-> r],
              LAMBDA r : gauge_metadata[r] = station_id)

\* Longitude and latitude of metadata row r.
Longitude(r) == 10 + r

Latitude(r) == 50 + r

\* np.all(np.isnan(rain_rate_gauge)): True for an empty array as well.
AllIsNaN(rain_rate_gauge) == \A j \in DOMAIN rain_rate_gauge : IsNaN(rain_rate_gauge[j])

\* Mutant: every NaN of the array is turned into 0 (np.nan_to_num).
RainRateGauge_NanToZero(data_values) ==
    [j \in DOMAIN data_values |-> IF IsNaN(data_values[j]) THEN R(0) ELSE data_values[j]]

\* rain_rate_gauge: the data values as they are, NaN preserved.
RainRateGauge(data_values) == data_values

\* PointSensor(rain_rate_gauge, time_array_unix, lon=lon, lat=lat)
PointSensor(station, r) ==
    [station_id |-> station.station_id,
     data_array |-> RainRateGauge(station.data_values),
     time_array |-> station.time_values,
     lon |-> Longitude(r),
     lat |-> Latitude(r)]

StationLoopRunning == loader_pc = "loop" /\ next_station <= Len(stations)

\* continue: no metadata row carries the station's id
SkipNoMetadata ==
    /\ StationLoopRunning
    /\ MatchingRows(stations[next_station].station_id) = <<>>
    /\ loader_printed' = Append(loader_printed,
                                [station_id |-> stations[next_station].station_id,
                                 why |-> "no matching Station ID in metadata"])
    /\ next_station' = next_station + 1
    /\ UNCHANGED <<stations, gauge_metadata, loader_pc, gauge_list>>
    /\ UNCHANGED <<scoreVars, aggVars, fetchVars, chunkVars, pipeVars>>

\* else branch: every value of the station is NaN
SkipAllNaN ==
    /\ StationLoopRunning
    /\ MatchingRows(stations[next_station].station_id) # <<>>
    /\ AllIsNaN(RainRateGauge(stations[next_station].data_values))
    /\ loader_printed' = Append(loader_printed,
                                [station_id |-> stations[next_station].station_id,
                                 why |-> "all data is NaN"])
    /\ next_station' = next_station + 1
    /\ UNCHANGED <<stations, gauge_metadata, loader_pc, gauge_list>>
    /\ UNCHANGED <<scoreVars, aggVars, fetchVars, chunkVars, pipeVars>>

\* The station has a metadata row and a valid value: its PointSensor is appended.
AppendPointSensor ==
    /\ StationLoopRunning
    /\ MatchingRows(stations[next_station].station_id) # <<>>
    /\ ~AllIsNaN(RainRateGauge(stations[next_station].data_values))
    /\ gauge_list' = Append(gauge_list,
                            PointSensor(stations[next_station],
                                        MatchingRows(stations[next_station].station_id)[1]))
    /\ next_station' = next_station + 1
    /\ UNCHANGED <<stations, gauge_metadata, loader_pc, loader_printed>>
    /\ UNCHANGED <<scoreVars, aggVars, fetchVars, chunkVars, pipeVars>>

\* return PointSet(gauge_list)
ReturnPointSet ==
    /\ loader_pc = "loop"
    /\ next_station > Len(stations)
    /\ loader_pc' = "returned"
    /\ UNCHANGED <<stations, gauge_metadata, next_station, gauge_list, loader_printed>>
    /\ UNCHANGED <<scoreVars, aggVars, fetchVars, chunkVars, pipeVars>>

IdleLoader ==
    /\ stations = <<>>
    /\ gauge_metadata = <<>>
    /\ next_station = 1
    /\ loader_pc = "idle"
    /\ gauge_list = <<>>
    /\ loader_printed = <<>>

(***************************************************************************)
(* ASOSFetcher.download_file                                               *)
(***************************************************************************)
RECURSIVE Pow2(_)
Pow2(n) == IF n = 0 THEN 1 ELSE 2 * Pow2(n - 1)

\* Statuses other than 200 and 404 that a server answers with.
OtherStatuses == {"403", "500"}

\* Mutant: range(retry_count + 1).
Attempting_OneMore == fetch_pc = "loop" /\ attempt <= retry_count

\* for attempt in range(retry_count): the body runs once more.
Attempting == fetch_pc = "loop" /\ attempt < retry_count

\* if attempt < retry_count - 1: time.sleep(2 ** attempt)
Backoff(a) == IF a < retry_count - 1 THEN Append(slept, Pow2(a)) ELSE slept

\* status_code == 200: the file is written and True is returned.
Attempt200 ==
    /\ Attempting
    /\ responses' = Append(responses, "200")
    /\ file_written' = TRUE
    /\ fetch_ret' = "True"
    /\ fetch_pc' = "returned"
    /\ UNCHANGED <<retry_count, attempt, slept>>
    /\ UNCHANGED <<scoreVars, aggVars, loaderVars, chunkVars, pipeVars>>

\* status_code == 404: False is returned at once.
Attempt404 ==
    /\ Attempting
    /\ responses' = Append(responses, "404")
    /\ fetch_ret' = "False"
    /\ fetch_pc' = "returned"
    /\ UNCHANGED <<retry_count, attempt, file_written, slept>>
    /\ UNCHANGED <<scoreVars, aggVars, loaderVars, chunkVars, pipeVars>>

\* Another status: a warning, then the next attempt without sleeping.
AttemptOtherStatus ==
    /\ Attempting
    /\ \E status \in OtherStatuses : responses' = Append(responses, status)
    /\ attempt' = attempt + 1
    /\ UNCHANGED <<retry_count, file_written, slept, fetch_pc, fetch_ret>>
    /\ UNCHANGED <<scoreVars, aggVars, loaderVars, chunkVars, pipeVars>>

\* except requests.exceptions.Timeout
AttemptTimeout ==
    /\ Attempting
    /\ responses' = Append(responses, "Timeout")
    /\ slept' = Backoff(attempt)
    /\ attempt' = attempt + 1
    /\ UNCHANGED <<retry_count, file_written, fetch_pc, fetch_ret>>
    /\ UNCHANGED <<scoreVars, aggVars, loaderVars, chunkVars, pipeVars>>

\* except requests.exceptions.RequestException
AttemptRequestError ==
    /\ Attempting
    /\ responses' = Append(responses, "RequestException")
    /\ slept' = Backoff(attempt)
    /\ attempt' = attempt + 1
    /\ UNCHANGED <<retry_count, file_written, fetch_pc, fetch_ret>>
    /\ UNCHANGED <<scoreVars, aggVars, loaderVars, chunkVars, pipeVars>>

\* The for loop is over: "Failed to download after ... attempts", return False.
ReturnFalseAfterRetries ==
    /\ fetch_pc = "loop"
    /\ attempt >= retry_count
    /\ fetch_ret' = "False"
    /\ fetch_pc' = "returned"
    /\ UNCHANGED <<retry_count, attempt, responses, file_written, slept>>
    /\ UNCHANGED <<scoreVars, aggVars, loaderVars, chunkVars, pipeVars>>

IdleFetch ==
    /\ retry_count = 0
    /\ attempt = 0
    /\ responses = <<>>
    /\ file_written = FALSE
    /\ slept = <<>>
    /\ fetch_pc = "idle"
    /\ fetch_ret = "pending"

(***************************************************************************)
(* get_historical_data_multi_chunk.  Dates are day numbers; timedelta(days *)
(* = n) adds n.                                                            *)
(***************************************************************************)
ChunkDays == 31

\* days_diff = (end_date - start_date).days
days_diff == end_date - start_date

\* chunk_end = min(current_start + timedelta(days=31), end_date)
chunk_end == Min2(current_start + ChunkDays, end_date)

\* if days_diff <= 31: return get_historical_data_chunk(...), which is the
\* data or None.
SingleChunk ==
    /\ chunk_pc = "call"
    /\ days_diff <= ChunkDays
    /\ chunks' = Append(chunks, <<start_date, end_date>>)
    /\ \E got \in BOOLEAN :
          /\ chunk_ret' = IF got THEN "data" ELSE "None"
          /\ all_observations' = IF got THEN <<1>> ELSE <<>>
    /\ chunk_pc' = "returned"
    /\ UNCHANGED <<start_date, end_date, current_start>>
    /\ UNCHANGED <<scoreVars, aggVars, loaderVars, fetchVars, pipeVars>>

\* Otherwise: all_observations = []; current_start = start_date
StartChunking ==
    /\ chunk_pc = "call"
    /\ days_diff > ChunkDays
    /\ current_start' = start_date
    /\ all_observations' = <<>>
    /\ chunk_pc' = "loop"
    /\ UNCHANGED <<start_date, end_date, chunks, chunk_ret>>
    /\ UNCHANGED <<scoreVars, aggVars, loaderVars, fetchVars, pipeVars>>

\* One pass of `while current_start < end_date`: the chunk is requested, its
\* observations (if it brought any) are collected, and current_start moves
\* to the day after chunk_end.
FetchChunk ==
    /\ chunk_pc = "loop"
    /\ current_start < end_date
    /\ chunks' = Append(chunks, <<current_start, chunk_end>>)
    /\ \E got \in BOOLEAN :
          all_observations' = IF got THEN Append(all_observations, Len(chunks) + 1)
                                     ELSE all_observations
    /\ current_start' = chunk_end + 1
    /\ UNCHANGED <<start_date, end_date, chunk_pc, chunk_ret>>
    /\ UNCHANGED <<scoreVars, aggVars, loaderVars, fetchVars, pipeVars>>

\* if all_observations: return {'observations': all_observations}
ReturnCombined ==
    /\ chunk_pc = "loop"
    /\ ~(current_start < end_date)
    /\ all_observations # <<>>
    /\ chunk_ret' = "data"
    /\ chunk_pc' = "returned"
    /\ UNCHANGED <<start_date, end_date, current_start, chunks, all_observations>>
    /\ UNCHANGED <<scoreVars, aggVars, loaderVars, fetchVars, pipeVars>>

\* else: return None
ReturnNoObservations ==
    /\ chunk_pc = "loop"
    /\ ~(current_start < end_date)
    /\ all_observations = <<>>
    /\ chunk_ret' = "None"
    /\ chunk_pc' = "returned"
    /\ UNCHANGED <<start_date, end_date, current_start, chunks, all_observations>>
    /\ UNCHANGED <<scoreVars, aggVars, loaderVars, fetchVars, pipeVars>>

(***************************************************************************)
(* run_full_pipeline                                                       *)
(***************************************************************************)
\* The four blocks of the function, in the order they are written.
Steps == <<"fetch", "process", "validate", "analyze">>

PipelineRunning == pipe_pc = "running" /\ pipe_step <= Len(Steps)

\* Mutant: the skip flags are ignored.
Skipped_Never(s) == FALSE

\* skip_fetch, skip_process, skip_validate, skip_analyze
Skipped(s) == skip[s]

\* else: logger.info("STEP n: SKIPPED ...")
SkipStep ==
    /\ PipelineRunning
    /\ Skipped(pipe_step)
    /\ pipe_step' = pipe_step + 1
    /\ UNCHANGED <<skip, executed, pipe_pc, pipe_ret>>
    /\ UNCHANGED <<scoreVars, aggVars, loaderVars, fetchVars, chunkVars>>

\* if not skip_x: the try block runs to its end.
RunStep ==
    /\ PipelineRunning
    /\ ~Skipped(pipe_step)
    /\ executed' = Append(executed, <<Steps[pipe_step], "ok">>)
    /\ pipe_step' = pipe_step + 1
    /\ UNCHANGED <<skip, pipe_pc, pipe_ret>>
    /\ UNCHANGED <<scoreVars, aggVars, loaderVars, fetchVars, chunkVars>>

\* if not skip_x: the try block raises; except Exception: return False
StepRaises ==
    /\ PipelineRunning
    /\ ~Skipped(pipe_step)
    /\ executed' = Append(executed, <<Steps[pipe_step], "raised">>)
    /\ pipe_ret' = "False"
    /\ pipe_pc' = "returned"
    /\ UNCHANGED <<skip, pipe_step>>
    /\ UNCHANGED <<scoreVars, aggVars, loaderVars, fetchVars, chunkVars>>

\* "PIPELINE COMPLETE"; return True
PipelineComplete ==
    /\ pipe_pc = "running"
    /\ pipe_step > Len(Steps)
    /\ pipe_ret' = "True"
    /\ pipe_pc' = "returned"
    /\ UNCHANGED <<skip, pipe_step, executed>>
    /\ UNCHANGED <<scoreVars, aggVars, loaderVars, fetchVars, chunkVars>>

\* ++COMPONENTS
IdleChunk ==
    /\ start_date = 0
    /\ end_date = 0
    /\ current_start = 0
    /\ chunks = <<>>
    /\ all_observations = <<>>
    /\ chunk_pc = "idle"
    /\ chunk_ret = "pending"

IdlePipe ==
    /\ skip = <<>>
    /\ pipe_step = 1
    /\ executed = <<>>
    /\ pipe_pc = "idle"
    /\ pipe_ret = "pending"

IdleOther == IdleLoader /\ IdleFetch /\ IdleChunk /\ IdlePipe

(***************************************************************************)
(* Inputs of rain_detection                                                *)
(***************************************************************************)
MaxLinkLen == 5

MaxGaugeLen == 10

UniformTimes(start, step, n) == [i \in 1..n |-> start + (i - 1) * step]

\* Link timestamps: a fixed cadence from a start on, strictly increasing.
LinkTimeArrays ==
    {UniformTimes(start, step, n) :
        start \in {0, 150}, step \in {150, 450}, n \in 0..MaxLinkLen}

\* Detector outputs of length n. The two trailing samples, which the trim
\* removes, are 0; the first sample may carry the non-boolean value 2.
Classifications(n) ==
    {s \in [1..n -> {0, 1, 2}] :
        \A i \in 1..n : /\ (i > n - 2 => s[i] = 0)
                        /\ (i > 1 => s[i] \in {0, 1})}

\* Rainfall of three consecutive gauge samples.
Trios == {<<R(0), R(0), R(0)>>, <<R(3), R(3), R(0)>>, <<R(0), NaN, R(0)>>}

GaugeDataArrays(n) ==
    {[i \in 1..n |-> f[((i - 1) \div 3) + 1][((i - 1) % 3) + 1]] :
        f \in [1..NTrios(n) -> Trios]}

\* Gauges (PointSensor): n >= 1 samples every 100 or 150 seconds from 0 on.
Gauges ==
    UNION {{[time_array |-> UniformTimes(0, step, n), data_array |-> d] :
               d \in GaugeDataArrays(n), step \in {100, 150}} : n \in 1..MaxGaugeLen}

ShortGauges == {g \in Gauges : Len(g.data_array) <= 3}

IdleAgg ==
    /\ ds_time = <<>>
    /\ pairs = <<>>
    /\ next_pair = 1
    /\ agg_pc = "idle"
    /\ link_list = <<>>
    /\ skipped_coords = 0
    /\ skipped_data = 0
    /\ agg = NoAgg

\* A link with a gauge reference and a detector output as long as its time array.
InitAligned ==
    /\ link_time_full \in LinkTimeArrays
    /\ wd_classification \in Classifications(Len(link_time_full))
    /\ gauge_ref \in {<<g>> : g \in Gauges}

\* A link with no gauge reference.
InitNoGauge ==
    /\ link_time_full \in LinkTimeArrays
    /\ wd_classification \in Classifications(Len(link_time_full))
    /\ gauge_ref = <<>>

\* A detector output one sample longer or shorter than the link's time array.
InitMisaligned ==
    /\ link_time_full \in LinkTimeArrays
    /\ wd_classification \in
          {[i \in 1..n |-> 0] : n \in {Len(link_time_full) + 1, Len(link_time_full) - 1} \ {-1}}
    /\ gauge_ref \in {<<g>> : g \in ShortGauges}

\* One link is drawn; one of the two functions is then called on it, once.
Init ==
    /\ InitAligned \/ InitNoGauge \/ InitMisaligned
    /\ pc = "call"
    /\ raised = ""
    /\ loc = NoLocals
    /\ ret = [kind |-> "pending"]
    /\ printed = <<>>
    /\ cp_pc = "call"
    /\ cp_raised = ""
    /\ cp = NoPlotLocals
    /\ cp_printed = <<>>
    /\ IdleAgg
    /\ IdleOther

Next ==
    \/ RainDetectionReturnsDict
    \/ RainDetectionReturnsNone
    \/ RainDetectionRaises
    \/ ClassificationPlotScores
    \/ ClassificationPlotNothingToPlot
    \/ ClassificationPlotRaises

Spec == Init /\ [][Next]_vars

(***************************************************************************)
(* Inputs of patched_xarray2link_with_gauges                               *)
(***************************************************************************)
MaxPairs == 2

\* ds.time: one timestamp, two that are 0, 100, 200 or 300 seconds apart, or a
\* series whose first gap (100) is shorter than its usual gap (200).
DsTimeArrays ==
    {<<0>>, <<0, 100, 300, 500>>}
        \cup {UniformTimes(0, step, 2) : step \in {0, 100, 200, 300}}

PairKinds == [coords_nan : BOOLEAN, rsl_all_nan : BOOLEAN]

IdleScore ==
    /\ link_time_full = <<>>
    /\ wd_classification = <<>>
    /\ gauge_ref = <<>>
    /\ pc = "idle"
    /\ raised = ""
    /\ loc = NoLocals
    /\ ret = [kind |-> "pending"]
    /\ printed = <<>>
    /\ cp_pc = "idle"
    /\ cp_raised = ""
    /\ cp = NoPlotLocals
    /\ cp_printed = <<>>

InitAgg ==
    /\ ds_time \in DsTimeArrays
    /\ pairs \in UNION {[1..n -> PairKinds] : n \in 0..MaxPairs}
    /\ next_pair = 1
    /\ agg_pc = "loop"
    /\ link_list = <<>>
    /\ skipped_coords = 0
    /\ skipped_data = 0
    /\ agg = NoAgg
    /\ IdleScore
    /\ IdleOther

NextAgg ==
    \/ SkipNanCoords
    \/ SkipNoRsl
    \/ CreateLinkWithGauges
    \/ CreateLinkNoGauges
    \/ AverageGaugesRaises
    \/ ReturnLinkSet

SpecAgg == InitAgg /\ [][NextAgg]_vars

(***************************************************************************)
(* Inputs of guage_to_linkset                                              *)
(***************************************************************************)
MaxStations == 3

\* The data values of one station: none, all NaN, mixed, or all valid.
StationData ==
    {<<>>, <<NaN, NaN>>, <<R(0), NaN>>, <<NaN, R(4)>>, <<R(0), R(0)>>}

\* Station k has the id k (the groups of a netCDF file have distinct names) and
\* one timestamp every 300 seconds.
Stations(n) ==
    {[k \in 1..n |-> [station_id |-> k,
                      time_values |-> UniformTimes(0, 300, Len(d[k])),
                      data_values |-> d[k]]] : d \in [1..n -> StationData]}

\* Up to two metadata rows, each with any station id (also the same one twice).
MetadataColumns == UNION {[1..n -> 1..MaxStations] : n \in 0..2}

InitLoader ==
    /\ stations \in UNION {Stations(n) : n \in 0..MaxStations}
    /\ gauge_metadata \in MetadataColumns
    /\ next_station = 1
    /\ loader_pc = "loop"
    /\ gauge_list = <<>>
    /\ loader_printed = <<>>
    /\ IdleScore
    /\ IdleAgg
    /\ IdleFetch
    /\ IdleChunk
    /\ IdlePipe

NextLoader ==
    \/ SkipNoMetadata
    \/ SkipAllNaN
    \/ AppendPointSensor
    \/ ReturnPointSet

SpecLoader == InitLoader /\ [][NextLoader]_vars

(***************************************************************************)
(* Inputs of ASOSFetcher.download_file                                     *)
(***************************************************************************)
MaxRetries == 3

InitFetch ==
    /\ retry_count \in 0..MaxRetries
    /\ attempt = 0
    /\ responses = <<>>
    /\ file_written = FALSE
    /\ slept = <<>>
    /\ fetch_pc = "loop"
    /\ fetch_ret = "pending"
    /\ IdleScore
    /\ IdleAgg
    /\ IdleLoader
    /\ IdleChunk
    /\ IdlePipe

NextFetch ==
    \/ Attempt200
    \/ Attempt404
    \/ AttemptOtherStatus
    \/ AttemptTimeout
    \/ AttemptRequestError
    \/ ReturnFalseAfterRetries

SpecFetch == InitFetch /\ [][NextFetch]_vars

(***************************************************************************)
(* Inputs of get_historical_data_multi_chunk                               *)
(***************************************************************************)
MaxStartDay == 2
MaxDays == 70

InitChunk ==
    /\ start_date \in 0..MaxStartDay
    /\ end_date \in start_date..(start_date + MaxDays)
    /\ current_start = 0
    /\ chunks = <<>>
    /\ all_observations = <<>>
    /\ chunk_pc = "call"
    /\ chunk_ret = "pending"
    /\ IdleScore
    /\ IdleAgg
    /\ IdleLoader
    /\ IdleFetch
    /\ IdlePipe

NextChunk ==
    \/ SingleChunk
    \/ StartChunking
    \/ FetchChunk
    \/ ReturnCombined
    \/ ReturnNoObservations

SpecChunk == InitChunk /\ [][NextChunk]_vars

(***************************************************************************)
(* Inputs of run_full_pipeline                                             *)
(***************************************************************************)
InitPipe ==
    /\ skip \in [DOMAIN Steps -> BOOLEAN]
    /\ pipe_step = 1
    /\ executed = <<>>
    /\ pipe_pc = "running"
    /\ pipe_ret = "pending"
    /\ IdleScore
    /\ IdleAgg
    /\ IdleLoader
    /\ IdleFetch
    /\ IdleChunk

NextPipe ==
    \/ SkipStep
    \/ RunStep
    \/ StepRaises
    \/ PipelineComplete

SpecPipe == InitPipe /\ [][NextPipe]_vars

(***************************************************************************)
(* rain_detection: properties                                              *)
(***************************************************************************)
Returned == pc = "returned" /\ ret.kind = "dict"

Rows == DOMAIN loc.combined

B2N(b) == IF b THEN 1 ELSE 0

MasksAt(i) == B2N(loc.tp_mask[i]) + B2N(loc.tn_mask[i])
              + B2N(loc.fp_mask[i]) + B2N(loc.fn_mask[i])

\* C1: every joined row lies in exactly one of the masks TP, TN, FP, FN, and the
\* four returned counts add up to the number of joined rows.
C1_ConfusionPartition ==
    Returned =>
        /\ \A i \in Rows : MasksAt(i) = 1
        /\ ret.true_positives + ret.true_negatives
              + ret.false_positives + ret.false_negatives = Len(loc.combined)
        /\ Len(ret.categories) = Len(loc.combined)

C1_Witness ==
    /\ Returned
    /\ Len(loc.combined) >= 3
    /\ ret.true_positives > 0 /\ ret.false_negatives > 0 /\ ret.true_negatives > 0

ObservedWet(i) == loc.combined[i].rainfall[2] # 0
                  /\ loc.combined[i].rainfall[1] > rain_threshold * loc.combined[i].rainfall[2]

Predictions == [i \in Rows |-> loc.combined[i].prediction]

Rainfalls == [i \in Rows |-> loc.combined[i].rainfall]

\* C2: a joined row is TP iff predicted = 1 and the gauge value exceeds the
\* threshold 0, TN iff predicted = 0 and it does not, FP iff predicted = 1 and it
\* does not, FN iff predicted = 0 and it does; predicted [1,1,0,0] against gauge
\* values [2,0,0,3] gives TP = TN = FP = FN = 1 and accuracy 1/2.
C2_ClassificationRule ==
    Returned =>
        /\ \A i \in Rows :
              /\ loc.tp_mask[i] <=> (Predictions[i] = 1 /\ ObservedWet(i))
              /\ loc.tn_mask[i] <=> (Predictions[i] = 0 /\ ~ObservedWet(i))
              /\ loc.fp_mask[i] <=> (Predictions[i] = 1 /\ ~ObservedWet(i))
              /\ loc.fn_mask[i] <=> (Predictions[i] = 0 /\ ObservedWet(i))
              /\ ret.categories[i] = (IF loc.tp_mask[i] THEN 1 ELSE IF loc.fp_mask[i] THEN 2
                                      ELSE IF loc.fn_mask[i] THEN 3 ELSE 0)
        /\ (Predictions = <<1, 1, 0, 0>> /\ Rainfalls = <<R(2), R(0), R(0), R(3)>>)
              => /\ ret.true_positives = 1 /\ ret.true_negatives = 1
                 /\ ret.false_positives = 1 /\ ret.false_negatives = 1
                 /\ ret.accuracy = <<1, 2>>
                 /\ loc.precision = <<1, 2>> /\ loc.recall = <<1, 2>>

C2_Witness ==
    /\ Returned
    /\ Predictions = <<1, 1, 0, 0>>
    /\ Rainfalls = <<R(2), R(0), R(0), R(3)>>

\* The link samples of the overlap window that lie in the bucket [b, b + 300).
InBucket(b) == {i \in DOMAIN loc.time_filtered_link :
                   b <= loc.time_filtered_link[i]
                   /\ loc.time_filtered_link[i] < b + BucketSeconds}

BooleanStream == \A i \in DOMAIN loc.wd_filtered : loc.wd_filtered[i] \in {0, 1}

\* C3: for a 0/1 classification, a 5-minute bucket (left-closed, labelled by
\* its left edge) is predicted 1 iff some link sample in it is wet, else 0.
C3_BucketIsOr ==
    (Returned /\ BooleanStream) =>
        \A k \in DOMAIN loc.link_resampled :
            LET row == loc.link_resampled[k]
            IN  /\ row.time % BucketSeconds = 0
                /\ row.prediction \in {0, 1}
                /\ row.prediction = 1 <=> \E i \in InBucket(row.time) : loc.wd_filtered[i] = 1

C3_Witness ==
    /\ Returned /\ BooleanStream
    /\ \E k \in DOMAIN loc.link_resampled :
          LET b == loc.link_resampled[k].time
          IN  /\ loc.link_resampled[k].prediction = 1
              /\ \E i, j \in InBucket(b) : loc.wd_filtered[i] = 1 /\ loc.wd_filtered[j] = 0
    /\ \E k \in DOMAIN loc.link_resampled :
          /\ loc.link_resampled[k].prediction = 0
          /\ InBucket(loc.link_resampled[k].time) # {}

BucketLabels == {loc.link_resampled[k].time : k \in DOMAIN loc.link_resampled}

GaugeRows == DOMAIN loc.time_filtered_gauge

\* C4: the scored rows are exactly the pairs of a predicted bucket and a gauge
\* row with the same timestamp and a rainfall that is not NaN; each carries that
\* bucket's prediction and that gauge row's rainfall.
C4_InnerJoinOnTime ==
    Returned =>
        /\ \A i \in Rows :
              /\ ~IsNaN(loc.combined[i].rainfall)
              /\ \E k \in DOMAIN loc.link_resampled :
                    /\ loc.link_resampled[k].time = loc.combined[i].time
                    /\ loc.link_resampled[k].prediction = loc.combined[i].prediction
              /\ \E j \in GaugeRows :
                    /\ loc.time_filtered_gauge[j] = loc.combined[i].time
                    /\ loc.ref_filtered[j] = loc.combined[i].rainfall
        /\ \A j \in GaugeRows :
              (loc.time_filtered_gauge[j] \in BucketLabels /\ ~IsNaN(loc.ref_filtered[j]))
                 => \E i \in Rows : loc.combined[i].time = loc.time_filtered_gauge[j]
        /\ \A i, j \in Rows : i < j => loc.combined[i].time < loc.combined[j].time
        /\ ret.time_array = [i \in Rows |-> loc.combined[i].time]

C4_Witness ==
    /\ Returned
    /\ Len(loc.combined) >= 1
    /\ \E b \in BucketLabels : \A j \in GaugeRows : loc.time_filtered_gauge[j] # b
    /\ \E j \in GaugeRows : loc.time_filtered_gauge[j] \notin BucketLabels
    /\ \E j \in GaugeRows : /\ loc.time_filtered_gauge[j] \in BucketLabels
                            /\ IsNaN(loc.ref_filtered[j])

\* q is the float n/d when d > 0 and the float 0 when d = 0.
IsRatioOrZero(q, n, d) ==
    /\ q[2] > 0
    /\ IF d = 0 THEN q[1] = 0 ELSE q[1] * d = n * q[2]

\* C5: accuracy = (TP+TN)/total, precision = TP/(TP+FP), recall = TP/(TP+FN),
\* each 0 when its denominator is 0; the call does not raise.
C5_GuardedMetrics ==
    (pc # "call" /\ HasGaugeRef /\ ~EmptyLinkTime /\ ~MaskMismatch) =>
        /\ Returned
        /\ IsRatioOrZero(loc.accuracy, ret.true_positives + ret.true_negatives,
                         Len(loc.combined))
        /\ IsRatioOrZero(loc.precision, ret.true_positives,
                         ret.true_positives + ret.false_positives)
        /\ IsRatioOrZero(loc.recall, ret.true_positives,
                         ret.true_positives + ret.false_negatives)
        /\ ret.accuracy = loc.accuracy

C5_Witness ==
    /\ Returned
    /\ Len(loc.combined) > 0
    /\ ret.true_positives + ret.false_positives = 0
    /\ ret.true_positives + ret.false_negatives = 0
    /\ loc.precision = R(0) /\ loc.recall = R(0)

AllRowsCorrect == \A i \in Rows : Predictions[i] = 1 <=> ObservedWet(i)

InUnitInterval(q) == q[2] > 0 /\ 0 <= q[1] /\ q[1] <= q[2]

\* C6 as claimed: 0 <= accuracy <= 1, and accuracy = 1 whenever the prediction
\* equals observed_wet on every joined row.
C6_AccuracyOneWhenAllCorrect ==
    Returned =>
        /\ InUnitInterval(ret.accuracy)
        /\ AllRowsCorrect => ret.accuracy = R(1)

\* C6 amended: 0 <= accuracy <= 1; accuracy = 1 whenever there is at least one
\* joined row and the prediction equals observed_wet on every joined row; with
\* no joined row the accuracy is 0.
C6_AccuracyBounds ==
    Returned =>
        /\ InUnitInterval(ret.accuracy)
        /\ (Len(loc.combined) > 0 /\ AllRowsCorrect) => ret.accuracy = R(1)
        /\ Len(loc.combined) = 0 => ret.accuracy = R(0)

C6_Witness ==
    /\ Returned
    /\ Len(loc.combined) >= 3
    /\ AllRowsCorrect
    /\ ret.true_positives > 0 /\ ret.true_negatives > 0

ReturnKeys == {"accuracy", "positive_acc", "negative_acc", "true_positives",
               "true_negatives", "false_positives", "false_negatives",
               "categories", "time_array"}

\* C7: in the returned dictionary positive_acc is the recall TP/(TP+FN), 0 when
\* TP+FN = 0, and the dictionary has exactly the nine documented keys.
C7_PositiveAccIsRecall ==
    Returned =>
        /\ ret.positive_acc = loc.recall
        /\ DOMAIN ret \ {"kind"} = ReturnKeys

\* A predicted value that is neither 0 nor 1, or a detector output whose length
\* differs from the link's time array.
Malformed ==
    \/ Len(wd_classification) # Len(link_time_full)
    \/ \E i \in DOMAIN Trim2(wd_classification) : Trim2(wd_classification)[i] \notin {0, 1}

\* C8: a call with a gauge reference and malformed input ends with an error,
\* never with a result in which the value was coerced to wet or dry.
C8_RejectsMalformedInput ==
    (pc # "call" /\ HasGaugeRef /\ Malformed) => (pc = "raised" /\ raised = "InvalidInput")

(***************************************************************************)
(* patched_xarray2link_with_gauges: properties                             *)
(***************************************************************************)
Averaged == agg.num_gauges > 0

Grid == agg.common_time_array

\* C9: the common grid is strictly increasing with one constant positive step,
\* starts at the minimum and ends at the maximum timestamp over all near gauges,
\* and no grid point lies outside [overall min, overall max].
C9_GridSpansOverallRange ==
    Averaged =>
        /\ Len(Grid) >= 1
        /\ agg.time_step > 0
        /\ \A i \in 1..(Len(Grid) - 1) : Grid[i + 1] - Grid[i] = agg.time_step
        /\ Grid[1] = agg.overall_time_min
        /\ Grid[Len(Grid)] = agg.overall_time_max
        /\ \A i \in DOMAIN Grid :
              agg.overall_time_min <= Grid[i] /\ Grid[i] <= agg.overall_time_max

FirstTime(g) == g.time_array[1]

LastTime(g) == g.time_array[Len(g.time_array)]

\* C10: at every grid point strictly before a gauge's first timestamp or strictly
\* after its last timestamp, that gauge's aligned value is NaN.
C10_NoExtrapolation ==
    Averaged =>
        \A k \in DOMAIN agg.gauges : \A i \in DOMAIN Grid :
            (Grid[i] < FirstTime(agg.gauges[k]) \/ Grid[i] > LastTime(agg.gauges[k]))
                => IsNaN(agg.aligned_arrays[k][i])

C10_Witness ==
    /\ Averaged
    /\ \E k \in DOMAIN agg.gauges :
          /\ \E i \in DOMAIN Grid : /\ Grid[i] > LastTime(agg.gauges[k])
                                    /\ IsNaN(agg.aligned_arrays[k][i])
          /\ \E i \in DOMAIN Grid : /\ Grid[i] < FirstTime(agg.gauges[k])
                                    /\ IsNaN(agg.aligned_arrays[k][i])
          /\ \E i \in DOMAIN Grid : ~IsNaN(agg.aligned_arrays[k][i])

\* The value at t of the straight line through the two samples of g that
\* enclose t, and the sample's own value when t is a sample timestamp.
LinearInterpolation(g, t) ==
    LET ts == g.time_array
        ys == g.data_array
    IN  IF \E j \in DOMAIN ts : ts[j] = t
        THEN ys[CHOOSE j \in DOMAIN ts : ts[j] = t]
        ELSE LET j == CHOOSE k \in 1..(Len(ts) - 1) : ts[k] < t /\ t < ts[k + 1]
             IN  DivInt(Add(Mul(ys[j], R(ts[j + 1] - t)), Mul(ys[j + 1], R(t - ts[j]))),
                        ts[j + 1] - ts[j])

InsideRange(g, t) == FirstTime(g) <= t /\ t <= LastTime(g)

\* C11: for every gauge with at least one sample (a single-sample gauge
\* included), the aligned value at each grid point inside the gauge's own
\* [min, max] range is the linear interpolation of its samples; at a grid point
\* equal to a sample timestamp it is that sample's value.
C11_LinearInsideOwnRange ==
    Averaged =>
        \A k \in DOMAIN agg.gauges : \A i \in DOMAIN Grid :
            InsideRange(agg.gauges[k], Grid[i])
                => agg.aligned_arrays[k][i] = LinearInterpolation(agg.gauges[k], Grid[i])

\* The same statement for the gauges with two samples or more.
C11_LinearForLongerGauges ==
    Averaged =>
        \A k \in DOMAIN agg.gauges : \A i \in DOMAIN Grid :
            (Len(agg.gauges[k].time_array) > 1 /\ InsideRange(agg.gauges[k], Grid[i]))
                => agg.aligned_arrays[k][i] = LinearInterpolation(agg.gauges[k], Grid[i])

\* The aligned values of all gauges at grid point i.
Column(i) == [k \in DOMAIN agg.gauges |-> agg.aligned_arrays[k][i]]

ValidAt(i) == {k \in DOMAIN agg.gauges : ~IsNaN(agg.aligned_arrays[k][i])}

\* C12: at every grid point the averaged value is the mean of the aligned values
\* that are not NaN, and it is NaN exactly when every aligned value is NaN there;
\* a missing contribution is never counted as zero.
C12_NanAwareMean ==
    Averaged =>
        /\ Len(agg.averaged_data) = Len(Grid)
        /\ \A i \in DOMAIN Grid :
              /\ IsNaN(agg.averaged_data[i]) <=> ValidAt(i) = {}
              /\ ValidAt(i) # {} =>
                    Mul(agg.averaged_data[i], R(Cardinality(ValidAt(i))))
                        = SumSeq([k \in DOMAIN agg.gauges |->
                                     IF k \in ValidAt(i) THEN agg.aligned_arrays[k][i] ELSE R(0)])

\* A grid point where one gauge is NaN and the other is 5: the average is 5.
C12_Witness ==
    /\ Averaged
    /\ \E i \in DOMAIN Grid :
          /\ Len(agg.gauges) = 2
          /\ \E k \in DOMAIN agg.gauges : IsNaN(Column(i)[k])
          /\ \E k \in DOMAIN agg.gauges : Column(i)[k] = R(5)
          /\ agg.averaged_data[i] = R(5)

\* The differences between consecutive timestamps of a series.
Deltas(ts) == [i \in 1..(Len(ts) - 1) |-> ts[i + 1] - ts[i]]

Occurrences(d, ds) == Cardinality({i \in DOMAIN ds : ds[i] = d})

\* The most frequent difference between consecutive timestamps.
DominantDelta(ts) ==
    CHOOSE d \in {Deltas(ts)[i] : i \in DOMAIN Deltas(ts)} :
        \A i \in DOMAIN Deltas(ts) :
            Occurrences(d, Deltas(ts)) >= Occurrences(Deltas(ts)[i], Deltas(ts))

GridSpacing(d) == \A i \in 1..(Len(Grid) - 1) : Grid[i + 1] - Grid[i] = d

\* C13 as stated: the spacing of the averaged gauge's grid is the dominant (most
\* frequent) difference between consecutive timestamps of the series it is
\* derived from, and 300 seconds when that series has one sample.
C13_SpacingIsDominantDelta ==
    Averaged =>
        GridSpacing(IF Len(ds_time) > 1 THEN DominantDelta(ds_time) ELSE 300)

\* C13: the spacing of the averaged gauge's grid is the difference between the
\* first two timestamps of the link's time array, and 300 seconds when that
\* array has fewer than two timestamps.
C13_SpacingIsFirstDelta ==
    Averaged =>
        /\ Len(ds_time) > 1 => GridSpacing(ds_time[2] - ds_time[1])
        /\ Len(ds_time) <= 1 => GridSpacing(300)

\* A grid of several points built from a link time array whose first gap is not
\* its dominant gap.
C13_Witness ==
    /\ Averaged
    /\ Len(Grid) > 1
    /\ Len(ds_time) > 2
    /\ DominantDelta(ds_time) # ds_time[2] - ds_time[1]
    /\ Grid[2] - Grid[1] = ds_time[2] - ds_time[1]

\* C14: averaging a gauge together with an identical duplicate of itself gives,
\* at every grid point, the same value (or NaN) as averaging that gauge alone.
C14_DuplicateChangesNothing ==
    Averaged =>
        /\ (Len(agg.gauges) = 2 /\ agg.gauges[1] = agg.gauges[2])
              => /\ Grid = AverageGauges(<<agg.gauges[1]>>, ds_time).common_time_array
                 /\ agg.averaged_data = AverageGauges(<<agg.gauges[1]>>, ds_time).averaged_data
        /\ \A k \in DOMAIN agg.gauges :
              AverageGauges(<<agg.gauges[k], agg.gauges[k]>>, ds_time).averaged_data
                  = AverageGauges(<<agg.gauges[k]>>, ds_time).averaged_data

\* A gauge and its duplicate were averaged and some averaged value is a number.
C14_Witness ==
    /\ Averaged
    /\ Len(agg.gauges) = 2
    /\ agg.gauges[1] = agg.gauges[2]
    /\ \E i \in DOMAIN Grid : ~IsNaN(agg.averaged_data[i]) /\ agg.averaged_data[i] # R(0)

Covers(g, lo, hi) == FirstTime(g) = lo /\ LastTime(g) = hi

ValueAt(g, t) == g.data_array[CHOOSE j \in DOMAIN g.time_array : g.time_array[j] = t]

\* Two near gauges, the first over [0, 100] and the second over [200, 300].
DisjointPair ==
    /\ Averaged
    /\ Len(agg.gauges) = 2
    /\ Covers(agg.gauges[1], 0, 100)
    /\ Covers(agg.gauges[2], 200, 300)

\* C15: for two gauges with the disjoint ranges [0,100] and [200,300] and a step
\* of 300 s the grid spans [0,300], every grid point covered by neither gauge is
\* NaN, and the points t=0 and t=300 have the value of the one gauge covering them.
C15_DisjointGauges ==
    DisjointPair =>
        /\ agg.time_step = 300 =>
              /\ Grid = <<0, 300>>
              /\ agg.averaged_data[1] = ValueAt(agg.gauges[1], 0)
              /\ agg.averaged_data[2] = ValueAt(agg.gauges[2], 300)
        /\ \A i \in DOMAIN Grid :
              (~InsideRange(agg.gauges[1], Grid[i]) /\ ~InsideRange(agg.gauges[2], Grid[i]))
                  => IsNaN(agg.averaged_data[i])

C15_Witness ==
    /\ DisjointPair
    /\ agg.time_step = 300
    /\ agg.averaged_data = <<R(5), R(3)>>

AllNaN(g) == \A j \in DOMAIN g.data_array : IsNaN(g.data_array[j])

\* The gauges of gs without its all-NaN gauges, in order.
WithoutAllNaN(gs) == SelectSeq(gs, LAMBDA g : ~AllNaN(g))

\* C16: an all-NaN gauge contributes nothing: adding it to a set of gauges
\* leaves the grid, the averaged values and the averaged location the same as
\* without it.
C16_AllNaNGaugeContributesNothing ==
    (/\ Averaged
     /\ \E k \in DOMAIN agg.gauges : AllNaN(agg.gauges[k])
     /\ WithoutAllNaN(agg.gauges) # <<>>)
        => LET without == AverageGauges(WithoutAllNaN(agg.gauges), ds_time)
           IN  /\ Grid = without.common_time_array
               /\ agg.averaged_data = without.averaged_data
               /\ agg.avg_lon = without.avg_lon
               /\ agg.avg_lat = without.avg_lat

\* The part of C16 that the NaN-aware mean does give: at the grid points the two
\* grids share, the averaged value is the same with and without the all-NaN gauge.
C16_SharedGridPointsUnchanged ==
    (Averaged /\ WithoutAllNaN(agg.gauges) # <<>>)
        => LET without == AverageGauges(WithoutAllNaN(agg.gauges), ds_time)
           IN  \A i \in DOMAIN Grid : \A j \in DOMAIN without.common_time_array :
                   Grid[i] = without.common_time_array[j]
                       => agg.averaged_data[i] = without.averaged_data[j]

LastLink == link_list[Len(link_list)]

\* The pairs passed so far that were not skipped.
KeptPairs ==
    {p \in 1..(next_pair - 1) : ~pairs[p].coords_nan /\ ~pairs[p].rsl_all_nan}

\* C17: when no gauge is near a link, no averaged gauge is built, the link's
\* metadata records num_gauges_used = 0 and the Link is still created, with
\* gauge_ref = None; when k > 0 gauges are found, num_gauges_used = k and exactly
\* one averaged gauge is attached.
C17_GaugeCountRecorded ==
    /\ Len(link_list) = Cardinality(KeptPairs)
    /\ \A n \in DOMAIN link_list :
          /\ link_list[n].pair \in KeptPairs
          /\ link_list[n].num_gauges_used = 0 => link_list[n].gauge_ref_len = 0
          /\ link_list[n].num_gauges_used > 0 => link_list[n].gauge_ref_len = 1
    /\ link_list # <<>> =>
          /\ LastLink.num_gauges_used = agg.num_gauges
          /\ ~Averaged => LastLink.gauge_ref_len = 0
          /\ Averaged => /\ LastLink.num_gauges_used = Len(agg.gauges)
                         /\ Len(agg.averaged_data) = Len(Grid)

\* A link set holding a link without reference followed by a link whose
\* averaged gauge was built from three gauges.
C17_Witness ==
    /\ Len(link_list) = 2
    /\ link_list[1].num_gauges_used = 0
    /\ link_list[1].gauge_ref_len = 0
    /\ link_list[2].num_gauges_used = 3
    /\ link_list[2].gauge_ref_len = 1
    /\ Averaged

(***************************************************************************)
(* rain_detection and classification_plot: properties                      *)
(***************************************************************************)
RainDetectionDone == pc \in {"returned", "raised"}

ClassificationPlotDone == cp_pc \in {"returned", "raised"}

Lines(s) == {s[i] : i \in DOMAIN s}

\* C18: for a link with no gauge reference, rain_detection and
\* classification_plot compute no aligned arrays and no metrics, report the
\* missing reference and return normally (rain_detection returns None), without
\* raising.
C18_NoReferenceNoScoring ==
    ~HasGaugeRef =>
        /\ RainDetectionDone =>
              /\ pc = "returned"
              /\ raised = ""
              /\ ret.kind = "None"
              /\ loc = NoLocals
              /\ printed = <<CouldNotFilter>>
        /\ ClassificationPlotDone =>
              /\ cp_pc = "returned"
              /\ cp_raised = ""
              /\ cp = NoPlotLocals
              /\ NoGaugeReference \in Lines(cp_printed)
              /\ Lines(cp_printed) \cap Lines(PerformanceLines) = {}

\* rain_detection was called on a link of several samples without reference.
C18_Witness ==
    /\ ~HasGaugeRef
    /\ Len(link_time_full) > 2
    /\ \E i \in DOMAIN wd_classification : wd_classification[i] = 1
    /\ pc = "returned"
    /\ ret.kind = "None"

\* rain_detection went through its comparison branch and the overlap period it
\* computed is inverted: the later start comes after the earlier end.
NoOverlap ==
    /\ RainDetectionDone
    /\ HasGaugeRef
    /\ loc # NoLocals
    /\ loc.start_time > loc.end_time

\* C19: when the link's and the gauge's time ranges do not intersect,
\* rain_detection produces empty aligned output and the link is skipped:
\* reported as not scorable, with no metrics result returned for it.
C19_NoOverlapIsSkipped ==
    NoOverlap =>
        /\ loc.wd_filtered = <<>>
        /\ loc.ref_filtered = <<>>
        /\ ret.kind = "None"
        /\ printed # <<>>

\* The part of C19 that the masks do give: without overlap nothing is kept and
\* no row is scored.
C19_NoOverlapGivesEmptyOutput ==
    NoOverlap =>
        /\ loc.wd_filtered = <<>>
        /\ loc.ref_filtered = <<>>
        /\ loc.combined = <<>>
        /\ loc.total = 0

\* The alignment window of the link and its gauge, from the inputs.
WindowStart == Max2(SeqMin(link_time_full), SeqMin(gauge_ref[1].time_array))

WindowEnd == Min2(SeqMax(link_time_full), SeqMax(gauge_ref[1].time_array))

InWindow(t) == WindowStart <= t /\ t <= WindowEnd

AllInWindow(times) == \A i \in DOMAIN times : InWindow(times[i])

\* C20: in rain_detection and classification_plot every link sample and every
\* gauge sample kept for comparison has a timestamp t with
\* max(link start, gauge start) <= t <= min(link end, gauge end); no sample
\* outside this window reaches the scoring or the nearest-neighbour step.
C20_KeptSamplesInWindow ==
    /\ (pc = "returned" /\ HasGaugeRef) =>
          /\ AllInWindow(loc.time_filtered_link)
          /\ AllInWindow(loc.time_filtered_gauge)
          /\ Len(loc.wd_filtered) = Len(loc.time_filtered_link)
          /\ Len(loc.ref_filtered) = Len(loc.time_filtered_gauge)
          /\ \A r \in DOMAIN loc.combined : InWindow(loc.combined[r].time)
    /\ (cp_pc = "returned" /\ HasGaugeRef) =>
          /\ AllInWindow(cp.time_filtered_link_wd)
          /\ AllInWindow(cp.time_filtered_link_std)
          /\ AllInWindow(cp.time_filtered_gauge)
          /\ Len(cp.wd_filtered) = Len(cp.time_filtered_link_wd)
          /\ Len(cp.ref_filtered) = Len(cp.time_filtered_gauge)
          /\ Len(cp.wd_at_gauge_times) = Len(cp.time_filtered_gauge)

\* classification_plot kept some samples of both series and dropped gauge
\* samples on either side of the window.
C20_Witness ==
    /\ cp_pc = "returned"
    /\ HasGaugeRef
    /\ cp.wd_filtered # <<>>
    /\ cp.ref_filtered # <<>>
    /\ \E i \in DOMAIN gauge_ref[1].time_array : gauge_ref[1].time_array[i] < WindowStart
    /\ \E i \in DOMAIN gauge_ref[1].time_array : gauge_ref[1].time_array[i] > WindowEnd
    /\ Len(cp.time_filtered_gauge) < Len(gauge_ref[1].time_array) - 1

\* The detector's output is as long as the link's time array.
DetectorAligned == Len(wd_classification) = Len(link_time_full)

\* C21: in rain_detection and in classification_plot the classification array
\* and the confidence (std) array are trimmed by the same two trailing samples,
\* so the two trimmed arrays and the link-time array they are paired with have
\* equal length.
C21_SameTrimEverywhere ==
    /\ (pc = "returned" /\ HasGaugeRef /\ DetectorAligned) =>
          /\ Len(loc.wd_array) = Len(wd_classification) - 2
          /\ Len(loc.std_array) = Len(wd_classification) - 2
          /\ Len(loc.link_time) = Len(loc.wd_array)
    /\ (cp_pc = "returned" /\ HasGaugeRef /\ DetectorAligned) =>
          /\ Len(cp.wd_array) = Len(wd_classification) - 2
          /\ Len(cp.std_array) = Len(wd_classification) - 2
          /\ Len(cp.link_time_wd) = Len(cp.wd_array)
          /\ Len(cp.link_time_std) = Len(cp.std_array)

\* The half of C21 that holds: rain_detection trims both arrays and the link
\* times by two.
C21_SameTrimInRainDetection ==
    (pc = "returned" /\ HasGaugeRef /\ DetectorAligned) =>
        /\ Len(loc.wd_array) = Len(wd_classification) - 2
        /\ Len(loc.std_array) = Len(loc.wd_array)
        /\ Len(loc.link_time) = Len(loc.wd_array)
        /\ Len(loc.std_filtered) = Len(loc.wd_filtered)

BooleanDetector == \A i \in DOMAIN wd_classification : wd_classification[i] \in {0, 1}

Distance(a, b) == IF a >= b THEN a - b ELSE b - a

\* The kept link samples that no other kept link sample is closer to t than.
ClosestSamples(t) ==
    {j \in DOMAIN cp.time_filtered_link_wd :
        \A k \in DOMAIN cp.time_filtered_link_wd :
            Distance(cp.time_filtered_link_wd[j], t) <= Distance(cp.time_filtered_link_wd[k], t)}

OutsideLinkSamples(t) ==
    \/ t < cp.time_filtered_link_wd[1]
    \/ t > cp.time_filtered_link_wd[Len(cp.time_filtered_link_wd)]

\* C22: in classification_plot the nearest-neighbour resampling of a 0/1
\* classification onto the gauge timestamps yields only 0 and 1: each output is
\* the value of the closest link sample, and a gauge timestamp outside the link
\* samples' range gets 0.
C22_NearestKeepsBoolean ==
    (cp_pc = "returned" /\ HasGaugeRef /\ BooleanDetector) =>
        \A i \in DOMAIN cp.wd_at_gauge_times :
            LET t == cp.time_filtered_gauge[i]
            IN  /\ cp.wd_at_gauge_times[i] \in {0, 1}
                /\ OutsideLinkSamples(t) => cp.wd_at_gauge_times[i] = 0
                /\ ~OutsideLinkSamples(t) =>
                      \E j \in ClosestSamples(t) : cp.wd_at_gauge_times[i] = cp.wd_filtered[j]

\* A gauge timestamp strictly between a dry and a wet link sample takes the wet
\* value of the closer one, and a gauge timestamp after the last kept link sample
\* gets 0 although that sample is wet.
C22_Witness ==
    /\ cp_pc = "returned"
    /\ HasGaugeRef
    /\ BooleanDetector
    /\ \E i \in DOMAIN cp.wd_at_gauge_times :
          LET t == cp.time_filtered_gauge[i]
          IN  /\ ~OutsideLinkSamples(t)
              /\ t \notin Lines(cp.time_filtered_link_wd)
              /\ cp.wd_at_gauge_times[i] = 1
              /\ \E j \in DOMAIN cp.wd_filtered : cp.wd_filtered[j] = 0
    /\ \E i \in DOMAIN cp.wd_at_gauge_times :
          /\ cp.time_filtered_gauge[i] > cp.time_filtered_link_wd[Len(cp.time_filtered_link_wd)]
          /\ cp.wd_filtered[Len(cp.wd_filtered)] = 1
          /\ cp.wd_at_gauge_times[i] = 0

AggregatorDone == agg_pc \in {"returned", "raised"}

\* The pairs with a NaN endpoint coordinate, and those with usable coordinates
\* and an all-NaN RSL series.
NanCoordPairs == {p \in DOMAIN pairs : pairs[p].coords_nan}

NoRslPairs == {p \in DOMAIN pairs : ~pairs[p].coords_nan /\ pairs[p].rsl_all_nan}

UsablePairs == DOMAIN pairs \ (NanCoordPairs \cup NoRslPairs)

\* C23: every pair with a NaN endpoint coordinate or an all-NaN RSL series is
\* skipped without aborting the batch and every other pair gets exactly one
\* Link, so links created + skipped_coords + skipped_data equals the number of
\* pairs; a pair skipped or failing locally never prevents later pairs from
\* being processed.
C23_EveryPairAccountedFor ==
    AggregatorDone =>
        /\ agg_pc = "returned"
        /\ next_pair = Len(pairs) + 1
        /\ skipped_coords = Cardinality(NanCoordPairs)
        /\ skipped_data = Cardinality(NoRslPairs)
        /\ {link_list[n].pair : n \in DOMAIN link_list} = UsablePairs
        /\ Len(link_list) = Cardinality(UsablePairs)
        /\ Len(link_list) + skipped_coords + skipped_data = Len(pairs)

\* The part of C23 that holds: skipping never stops the loop, and when the call
\* returns every pair is counted once.
C23_ReturnedCountsEveryPair ==
    /\ Len(link_list) + skipped_coords + skipped_data = next_pair - 1
    /\ agg_pc = "returned" =>
          /\ skipped_coords = Cardinality(NanCoordPairs)
          /\ skipped_data = Cardinality(NoRslPairs)
          /\ {link_list[n].pair : n \in DOMAIN link_list} = UsablePairs
          /\ Len(link_list) + skipped_coords + skipped_data = Len(pairs)

(***************************************************************************)
(* guage_to_linkset: properties                                            *)
(***************************************************************************)
HasValidValue(data) == \E j \in DOMAIN data : ~IsNaN(data[j])

HasMetadataRow(station_id) == \E r \in DOMAIN gauge_metadata : gauge_metadata[r] = station_id

KeptStations == {gauge_list[n].station_id : n \in DOMAIN gauge_list}

\* C24: every gauge of the PointSet returned by guage_to_linkset has at least
\* one non-NaN value and a matching Station ID row in the metadata; stations
\* whose data is entirely NaN or that have no metadata match are skipped, and the
\* NaN samples of the kept gauges stay NaN (they are not turned into 0).
C24_OnlyValidMatchedGauges ==
    /\ \A n \in DOMAIN gauge_list :
          LET g == gauge_list[n]
              station == stations[g.station_id]
          IN  /\ HasValidValue(g.data_array)
              /\ HasMetadataRow(g.station_id)
              /\ Len(g.data_array) = Len(station.data_values)
              /\ \A j \in DOMAIN g.data_array :
                    /\ IsNaN(g.data_array[j]) <=> IsNaN(station.data_values[j])
                    /\ g.data_array[j] = station.data_values[j]
    /\ loader_pc = "returned" =>
          /\ KeptStations = {k \in DOMAIN stations :
                                HasMetadataRow(k) /\ HasValidValue(stations[k].data_values)}
          /\ Len(gauge_list) = Cardinality(KeptStations)
          /\ Len(gauge_list) + Len(loader_printed) = Len(stations)

\* Three stations were read: one kept with a NaN sample next to a valid one,
\* one skipped for being all NaN, one skipped for having no metadata row.
C24_Witness ==
    /\ loader_pc = "returned"
    /\ Len(stations) = 3
    /\ \E n \in DOMAIN gauge_list :
          /\ \E j \in DOMAIN gauge_list[n].data_array : IsNaN(gauge_list[n].data_array[j])
          /\ \E j \in DOMAIN gauge_list[n].data_array : gauge_list[n].data_array[j] = R(0)
    /\ \E n \in DOMAIN loader_printed : loader_printed[n].why = "all data is NaN"
    /\ \E n \in DOMAIN loader_printed :
          loader_printed[n].why = "no matching Station ID in metadata"

(***************************************************************************)
(* gauge_to15: properties                                                  *)
(***************************************************************************)
\* The samples (1-based) of group i (0-based) of a series of n samples.
Group(i, n) == {j \in 1..n : 3 * i < j /\ j <= 3 * i + 3}

\* v is the plain arithmetic mean of the samples of data in group g: NaN when
\* one of them is NaN, else v * |g| is their sum.
IsPlainMean(v, data, g) ==
    IF \E j \in g : IsNaN(data[j])
    THEN IsNaN(v)
    ELSE /\ ~IsNaN(v)
         /\ Mul(v, R(Cardinality(g))) = SumSeq([j \in 1..Len(data) |->
                                                   IF j \in g THEN data[j] ELSE R(0)])

\* C25: gauge_to15 maps a gauge of n samples to exactly ceil(n/3) rows; row i's
\* value is the plain arithmetic mean of the samples 3i .. min(3i+3, n)-1 (a last
\* incomplete group is averaged over the samples it has, a group with a NaN
\* gives NaN) and row i's timestamp is the timestamp of sample 3i.
C25_TrioAverages ==
    (pc = "returned" /\ HasGaugeRef) =>
        LET data == gauge_ref[1].data_array
            n == Len(data)
            rows == Len(loc.gauge15.gauge_data)
        IN  /\ 3 * rows >= n
            /\ 3 * (rows - 1) < n
            /\ Len(loc.gauge15.time_array) = rows
            /\ \A i \in 0..(rows - 1) :
                  /\ Group(i, n) # {}
                  /\ IsPlainMean(loc.gauge15.gauge_data[i + 1], data, Group(i, n))
                  /\ loc.gauge15.time_array[i + 1] = gauge_ref[1].time_array[3 * i + 1]

\* A gauge of 8 samples: three rows, a full group of mean 2, a group with a NaN
\* and a last group of the two samples 3, 3 whose mean is 3.
C25_Witness ==
    /\ pc = "returned"
    /\ HasGaugeRef
    /\ Len(gauge_ref[1].data_array) = 8
    /\ loc.gauge15.gauge_data = <<R(2), NaN, R(3)>>

(***************************************************************************)
(* rain_detection: buckets without a link sample                           *)
(***************************************************************************)
FirstRetained == loc.time_filtered_link[1]

LastRetained == loc.time_filtered_link[Len(loc.time_filtered_link)]

\* The 5-minute bucket labels between the first and the last retained link
\* sample whose bucket [b, b + 300) holds no retained link sample.
EmptyBuckets ==
    IF loc.time_filtered_link = <<>> THEN {}
    ELSE {b \in FirstRetained..LastRetained : b % 300 = 0 /\ InBucket(b) = {}}

\* C26: in rain_detection a 5-minute bucket between the first and the last
\* retained link sample that contains no link sample gets the prediction 0 (dry),
\* not a missing value, so it survives the join and the dropna and is scored as
\* TN or FN against the gauge.
C26_EmptyBucketIsDry ==
    Returned =>
        \A b \in EmptyBuckets :
            /\ \E k \in DOMAIN loc.link_resampled :
                  /\ loc.link_resampled[k].time = b
                  /\ loc.link_resampled[k].prediction = 0
            /\ \A j \in GaugeRows :
                  (loc.time_filtered_gauge[j] = b /\ ~IsNaN(loc.ref_filtered[j])) =>
                      \E i \in Rows :
                          /\ loc.combined[i].time = b
                          /\ loc.combined[i].prediction = 0
                          /\ loc.combined[i].rainfall = loc.ref_filtered[j]
                          /\ loc.tn_mask[i] \/ loc.fn_mask[i]
                          /\ ~loc.tp_mask[i] /\ ~loc.fp_mask[i]
                          /\ Gt(loc.ref_filtered[j], R(0)) <=> loc.fn_mask[i]

\* A bucket without a link sample was joined with a rainy gauge row and scored
\* as a false negative, while a sampled bucket was wet.
C26_Witness ==
    /\ Returned
    /\ \E b \in EmptyBuckets : \E i \in Rows : loc.combined[i].time = b /\ loc.fn_mask[i]
    /\ \E i \in Rows : loc.combined[i].prediction = 1

(***************************************************************************)
(* classification_plot: counts                                             *)
(***************************************************************************)
PlotCounts == cp.true_positives + cp.true_negatives + cp.false_positives + cp.false_negatives

PlotScored == cp_pc = "returned" /\ HasGaugeRef /\ Len(cp.ref_filtered) > 0

\* C27: in classification_plot the four counts partition the gauge samples of
\* the overlap window: their sum is len(ref_filtered), the denominator of the
\* accuracy, for every gauge series, NaN values included.
C27_PlotCountsPartition ==
    (PlotScored /\ BooleanDetector) =>
        /\ PlotCounts = Len(cp.ref_filtered)
        /\ cp.accuracy = NpDiv(cp.true_positives + cp.true_negatives, PlotCounts)

\* The part of C27 that holds: the counts partition the gauge samples whose
\* value is a number that is not negative.
C27_CountsPartitionValidSamples ==
    (PlotScored /\ BooleanDetector) =>
        PlotCounts = Cardinality({i \in DOMAIN cp.ref_filtered :
                                     cp.ref_filtered[i] = R(0) \/ Gt(cp.ref_filtered[i], R(0))})

(***************************************************************************)
(* ASOSFetcher.download_file: properties                                   *)
(***************************************************************************)
FailedResponses == OtherStatuses \cup {"Timeout", "RequestException"}

\* Every request but the last one made so far failed in a retriable way.
EarlierAttemptsFailed ==
    \A i \in 1..(Len(responses) - 1) : responses[i] \in FailedResponses

LastResponse == IF responses = <<>> THEN "none" ELSE responses[Len(responses)]

ChunkingDone == chunk_pc = "returned" /\ days_diff > ChunkDays

\* The requested chunks that contain day d.
ChunksWith(d) == {i \in DOMAIN chunks : chunks[i][1] <= d /\ d <= chunks[i][2]}

\* C29: for every range of more than 31 days the function terminates having
\* requested chunks of at most 31 days each, such that every day from
\* start_date to end_date inclusive lies in exactly one requested chunk.
C29_EveryDayInOneChunk ==
    ChunkingDone =>
        /\ \A i \in DOMAIN chunks : chunks[i][2] - chunks[i][1] <= ChunkDays
        /\ \A d \in start_date..end_date : Cardinality(ChunksWith(d)) = 1

\* What the loop does guarantee: chunks of at most 31 days, no day requested
\* twice, and every day before end_date requested; end_date itself is
\* requested unless the previous chunk ended the day before it.
C29_AllButLastDay ==
    ChunkingDone =>
        /\ \A i \in DOMAIN chunks : chunks[i][2] - chunks[i][1] <= ChunkDays
        /\ \A d \in start_date..end_date : Cardinality(ChunksWith(d)) <= 1
        /\ \A d \in start_date..(end_date - 1) : Cardinality(ChunksWith(d)) = 1
        /\ ChunksWith(end_date) = {} <=> chunks[Len(chunks)][2] = end_date - 1

\* A 32-day range: one chunk is requested and the last day is left out.
C29_LastDaySkipped ==
    /\ ChunkingDone
    /\ days_diff = ChunkDays + 1
    /\ Len(chunks) = 1
    /\ ChunksWith(end_date) = {}

(***************************************************************************)
(* run_full_pipeline: properties                                           *)
(***************************************************************************)
\* The position of a step name in the fixed order.
StepIndex(name) == CHOOSE s \in DOMAIN Steps : Steps[s] = name

\* C30: the steps run in the order fetch, process, validate, analyze; a step
\* whose skip flag is set is never executed; a step that raises is the last
\* one executed and the function returns False; True is returned only when
\* every step that is not skipped completed without raising.
C30_PipelineOrder ==
    /\ \A i, j \in DOMAIN executed :
          i < j => StepIndex(executed[i][1]) < StepIndex(executed[j][1])
    /\ \A i \in DOMAIN executed : ~skip[StepIndex(executed[i][1])]
    /\ \A i \in DOMAIN executed :
          executed[i][2] = "raised"
             => i = Len(executed) /\ pipe_pc = "returned" /\ pipe_ret = "False"
    /\ pipe_ret = "True"
          => \A s \in DOMAIN Steps :
                ~skip[s] => \E i \in DOMAIN executed : executed[i] = <<Steps[s], "ok">>
    /\ pipe_ret = "False" => executed # <<>> /\ executed[Len(executed)][2] = "raised"

\* fetch ran, process was skipped, validate raised: False, analyze never ran.
C30_Witness ==
    /\ pipe_pc = "returned"
    /\ pipe_ret = "False"
    /\ skip = <<FALSE, TRUE, FALSE, FALSE>>
    /\ executed = <<<<"fetch", "ok">>, <<"validate", "raised">>>>

====
